---------------------------- MODULE Spec2Model ----------------------------
(***************************************************************************)
(* Model of the Team AI Impact Dashboard pipeline:                         *)
(*   src/src/metrics_processor.py   calculate_business_days,               *)
(*                                  process_issue_metrics                  *)
(*   src/src/dashboard_calculator.py calculate_scores and helpers          *)
(*   src/src/main.py                TeamImpactDashboard.run                *)
(*                                                                         *)
(* Time.  A timestamp is a number of ticks since midnight of day 0, which  *)
(* is a Monday.  The tick is the resolution of a datetime (one microsecond *)
(* in Python); a day has TicksPerDay ticks.  datetime.time.max is the last *)
(* tick of a day, TicksPerDay - 1.  A duration in days is kept as a number *)
(* of ticks (days * TicksPerDay), so the arithmetic is exact; binary       *)
(* floating point error is not modelled.  All timestamps carry the same    *)
(* UTC offset.                                                             *)
(*                                                                         *)
(* Text.  A string is a sequence of one-character strings, so that         *)
(* strip, lower, replace, title, substring search and the sprint-name      *)
(* pattern are computed character by character.                            *)
(***************************************************************************)
EXTENDS Integers, Sequences, FiniteSets, TLC

VARIABLES
    \* ---- harness of calculate_business_days (SpecBD)
    start_datetime,     \* argument start_datetime
    end_datetime,       \* argument end_datetime of the first call
    end_datetime2,      \* argument end_datetime of the second call
    duration1,          \* value returned by the first call
    duration2,          \* value returned by the second call
    bd_pc,              \* "args" | "first" | "done"
    \* ---- one call of process_issue_metrics (SpecItem, SpecSprint)
    issue,              \* argument issue
    locals,             \* the locals of the call
    pc,                 \* position in the call
    s_idx,              \* position of `for s in raw_sprint`
    h_idx,              \* position of `for history in histories`
    i_idx,              \* position of `for item in history.items`
    result,             \* <<>> until the call returns a record, then <<record>>
    \* ---- the loop of TeamImpactDashboard.run over the issues (SpecRunLoop)
    jira_issues,        \* the list returned by fetch_issues
    run_idx,            \* position of `for issue in jira_issues`
    raw_metrics,        \* the list raw_metrics
    run_pc,             \* position in run
    clock,              \* the wall clock, read by datetime.datetime.now
    now_reads,          \* the values of `now` of the calls made so far
    \* ---- one call of calculate_scores (SpecScores)
    metrics_df,         \* argument metrics_df, a sequence of records
    flow_df,            \* argument flow_df, a sequence of survey rows
    dashboard,          \* the local frame dashboard
    cs_pc,              \* position in the call
    table,              \* the frame returned
    \* ---- harness of calc_throughput_score / calc_efficiency_score (SpecCurve)
    actual_lo,          \* the smaller argument
    actual_hi,          \* the larger argument
    median,             \* the median captured by the closure
    score_lo,           \* rounded score of actual_lo
    score_hi,           \* rounded score of actual_hi
    curve_pc            \* "args" | "throughput" | "efficiency"

bdVars == <<start_datetime, end_datetime, end_datetime2, duration1, duration2, bd_pc>>

itemVars == <<issue, locals, pc, s_idx, h_idx, i_idx, result>>

runVars == <<jira_issues, run_idx, raw_metrics, run_pc, clock, now_reads>>

csVars == <<metrics_df, flow_df, dashboard, cs_pc, table>>

curveVars == <<actual_lo, actual_hi, median, score_lo, score_hi, curve_pc>>

vars == <<bdVars, itemVars, runVars, csVars, curveVars>>

\* what a step of process_issue_metrics leaves alone
notItemVars == <<bdVars, runVars, csVars, curveVars>>

\* what a step of the calculate_business_days harness leaves alone
notBDVars == <<itemVars, runVars, csVars, curveVars>>

\* what a step of the loop of run leaves alone
notRunVars == <<bdVars, csVars, curveVars>>

\* what a step of calculate_scores leaves alone
notCSVars == <<bdVars, itemVars, runVars, curveVars>>

\* what a step of the harness of the scoring curves leaves alone
notCurveVars == <<bdVars, itemVars, runVars, csVars>>

---------------------------------------------------------------------------
(* Bounds of the model *)

TicksPerDay == 4        \* resolution: ticks in one calendar day
BDDays == 9             \* days covered by the arguments of SpecBD (Mon .. Tue of next week)
MaxHistories == 3       \* length of changelog.histories
MaxSprints == 3         \* length of an issue's list of sprint candidates

---------------------------------------------------------------------------
(* Calendar: datetime.date(), datetime.weekday(), datetime.time.min/max *)

DateOf(t) == t \div TicksPerDay

Weekday(date) == date % 7

StartOfDay(date) == date * TicksPerDay

EndOfDay(date) == date * TicksPerDay + (TicksPerDay - 1)

(* metrics_processor.py:37-45: the while loop counting Monday-Friday dates
   in [start_date, end_date) *)
RECURSIVE CountBusinessDays(_, _, _)
CountBusinessDays(current_date, end_date, business_days) ==
    IF current_date < end_date
    THEN CountBusinessDays(current_date + 1, end_date,
                           IF Weekday(current_date) < 5
                           THEN business_days + 1 ELSE business_days)
    ELSE business_days

(* metrics_processor.py:20-75.  The result is in ticks: the returned float
   times TicksPerDay. *)
calculate_business_days(start, end) ==
    IF start >= end THEN 0
    ELSE
      LET start_date == DateOf(start)
          end_date == DateOf(end)
          counted == CountBusinessDays(start_date, end_date, 0)
          total_seconds == end - start
      IN IF counted = 0
         THEN IF Weekday(start_date) < 5 THEN total_seconds ELSE 0
         ELSE
           LET start_weekday == Weekday(start_date) < 5
               end_weekday == Weekday(end_date) < 5
               start_partial == IF start_weekday THEN EndOfDay(start_date) - start ELSE 0
               end_partial == IF end_weekday THEN end - StartOfDay(end_date) ELSE 0
               business_days == counted - (IF start_weekday THEN 1 ELSE 0)
                                        - (IF end_weekday THEN 1 ELSE 0)
           IN business_days * TicksPerDay + start_partial + end_partial

---------------------------------------------------------------------------
(* Text: Python str operations on sequences of characters *)

UpperLetters == <<"A","B","C","D","E","F","G","H","I","J","K","L","M",
                  "N","O","P","Q","R","S","T","U","V","W","X","Y","Z">>

LowerLetters == <<"a","b","c","d","e","f","g","h","i","j","k","l","m",
                  "n","o","p","q","r","s","t","u","v","w","x","y","z">>

Digits == <<"0","1","2","3","4","5","6","7","8","9">>

IsUpper(c) == \E i \in 1..26 : UpperLetters[i] = c

IsLower(c) == \E i \in 1..26 : LowerLetters[i] = c

IsDigit(c) == \E i \in 1..10 : Digits[i] = c

DigitValue(c) == (CHOOSE i \in 1..10 : Digits[i] = c) - 1

LowerChar(c) == IF IsUpper(c) THEN LowerLetters[CHOOSE i \in 1..26 : UpperLetters[i] = c] ELSE c

UpperChar(c) == IF IsLower(c) THEN UpperLetters[CHOOSE i \in 1..26 : LowerLetters[i] = c] ELSE c

\* str.lower()
StrLower(s) == [i \in 1..Len(s) |-> LowerChar(s[i])]

\* str.title(): a letter is upper-cased after a non-letter, lower-cased after a letter
StrTitle(s) ==
    [i \in 1..Len(s) |->
        IF i = 1 \/ ~(IsUpper(s[i-1]) \/ IsLower(s[i-1]))
        THEN UpperChar(s[i]) ELSE LowerChar(s[i])]

\* str.lstrip(chars), str.rstrip(chars), str.strip(chars)
RECURSIVE StrLStrip(_, _)
StrLStrip(s, chars) ==
    IF Len(s) > 0 /\ s[1] \in chars THEN StrLStrip(Tail(s), chars) ELSE s

RECURSIVE StrRStrip(_, _)
StrRStrip(s, chars) ==
    IF Len(s) > 0 /\ s[Len(s)] \in chars
    THEN StrRStrip(SubSeq(s, 1, Len(s) - 1), chars) ELSE s

StrStrip(s, chars) == StrRStrip(StrLStrip(s, chars), chars)

\* str.replace(c, ""): every occurrence of the character removed
StrRemoveChar(s, c) == SelectSeq(s, LAMBDA x : x # c)

\* sub in s
StrContains(sub, s) ==
    \E i \in 0 .. (Len(s) - Len(sub)) : SubSeq(s, i + 1, i + Len(sub)) = sub

\* Python's None where a text is expected: a sequence that is no text
NoneText == <<"None">>

\* An optional number: <<>> is None, <<n>> is the number n
NoneNum == <<>>

Some(n) == <<n>>

---------------------------------------------------------------------------
(* Dates: datetime.datetime.strptime(.., '%m.%d.%y'), datetime.min.
   A date is a day number; day 0 is Monday 2024-12-30. *)

IsLeap(y) == (y % 4 = 0 /\ y % 100 # 0) \/ y % 400 = 0

DaysInMonth(y, m) ==
    IF m = 2 THEN (IF IsLeap(y) THEN 29 ELSE 28)
    ELSE IF m \in {4, 6, 9, 11} THEN 30 ELSE 31

RECURSIVE DaysBeforeMonth(_, _)
DaysBeforeMonth(y, m) ==
    IF m = 1 THEN 0 ELSE DaysBeforeMonth(y, m - 1) + DaysInMonth(y, m - 1)

\* datetime.date(y, m, d).toordinal()
ToOrdinal(y, m, d) ==
    LET p == y - 1
    IN 365 * p + (p \div 4) - (p \div 100) + (p \div 400) + DaysBeforeMonth(y, m) + d

DayNumber(y, m, d) == ToOrdinal(y, m, d) - ToOrdinal(2024, 12, 30)

\* datetime.datetime.min, 0001-01-01 00:00, as a timestamp
DatetimeMin == StartOfDay(DayNumber(1, 1, 1))

STR_Iteration_ == <<"I","t","e","r","a","t","i","o","n"," ">>

\* whether r'Iteration (\d{2}\.\d{2}\.\d{2})' matches name at offset i (0-based)
SprintPatternAt(name, i) ==
    /\ i + 18 <= Len(name)
    /\ SubSeq(name, i + 1, i + 10) = STR_Iteration_
    /\ \A k \in {11, 12, 14, 15, 17, 18} : IsDigit(name[i + k])
    /\ \A k \in {13, 16} : name[i + k] = "."

TwoDigits(name, k) == 10 * DigitValue(name[k]) + DigitValue(name[k + 1])

(* dashboard_calculator.py:284-301 and metrics_processor.py:123-129:
   re.search takes the leftmost match; strptime('%m.%d.%y') raises on a month
   or day out of range (the except leaves datetime.min); %y maps 00-68 to
   2000-2068 and 69-99 to 1969-1999. *)
_parse_sprint_date(name) ==
    LET matches == IF name = NoneText THEN {}
                   ELSE {i \in 0 .. (Len(name) - 18) : SprintPatternAt(name, i)}
    IN IF matches = {} THEN DatetimeMin
       ELSE
         LET i == CHOOSE j \in matches : \A k \in matches : j <= k
             mm == TwoDigits(name, i + 11)
             dd == TwoDigits(name, i + 14)
             yy == TwoDigits(name, i + 17)
             year == IF yy < 69 THEN 2000 + yy ELSE 1900 + yy
         IN IF mm >= 1 /\ mm <= 12 /\ dd >= 1 /\ dd <= DaysInMonth(year, mm)
            THEN StartOfDay(DayNumber(year, mm, dd))
            ELSE DatetimeMin

---------------------------------------------------------------------------
(* config.py *)

FIELD_TEAM_FILTER_VALUE == <<"F","o","u","n","d","a","t","i","o","n">>

STR_accepted == <<"a","c","c","e","p","t","e","d">>
STR_uat == <<"u","a","t">>
STR_ready_for_release == <<"r","e","a","d","y"," ","f","o","r"," ","r","e","l","e","a","s","e">>
STR_closedcompleted == <<"c","l","o","s","e","d","c","o","m","p","l","e","t","e","d">>
STR_closed_completed == <<"c","l","o","s","e","d"," ","c","o","m","p","l","e","t","e","d">>
STR_started == <<"s","t","a","r","t","e","d">>
STR_peer_review == <<"p","e","e","r"," ","r","e","v","i","e","w">>
STR_finished == <<"f","i","n","i","s","h","e","d">>
STR_delivered == <<"d","e","l","i","v","e","r","e","d">>
STR_rejected == <<"r","e","j","e","c","t","e","d">>
STR_To_Do == <<"T","o"," ","D","o">>
STR_Unknown_Sprint == <<"U","n","k","n","o","w","n"," ","S","p","r","i","n","t">>
STR_Unknown == <<"U","n","k","n","o","w","n">>
STR_name_eq == <<"n","a","m","e","=">>

COMPLETION_STATUSES ==
    {STR_accepted, STR_uat, STR_ready_for_release, STR_closedcompleted, STR_closed_completed}

DELIVERY_STATUSES == COMPLETION_STATUSES \cup {STR_delivered}

\* metrics_processor.py:172 and :193, the list of statuses whose time is tracked
TrackedStatuses == {STR_started, STR_peer_review, STR_finished, STR_delivered}

Whitespace == {" ", "\t", "\n", "\r"}

---------------------------------------------------------------------------
(* process_issue_metrics, metrics_processor.py:78-260

   An issue is a record
     key, story_points (an optional number), created (a timestamp),
     status (the name of fields.status), issuetype (its name),
     raw_sprint (a sequence of sprint candidates; None is the empty one),
     histories (changelog.histories: a sequence of [created, items], each
                item [field, fromString, toString], the strings NoneText or text).
   A sprint candidate is [kind, name, goal, text]: kind "obj" is an object
   with attributes name and goal (goal NoneText or text), kind "dict" a dict
   with keys name and goal, kind "str" the string text. *)

\* sorted(changelog.histories, key=lambda x: x.created): stable insertion
RECURSIVE InsertByCreated(_, _)
InsertByCreated(sorted, h) ==
    IF Len(sorted) = 0 THEN <<h>>
    ELSE IF sorted[Len(sorted)].created <= h.created THEN Append(sorted, h)
    ELSE Append(InsertByCreated(SubSeq(sorted, 1, Len(sorted) - 1), h), sorted[Len(sorted)])

RECURSIVE SortedByCreated(_)
SortedByCreated(hs) ==
    IF Len(hs) = 0 THEN <<>>
    ELSE InsertByCreated(SortedByCreated(SubSeq(hs, 1, Len(hs) - 1)), hs[Len(hs)])

\* re.search(r'name=([^,]+)', s): group 1 of the leftmost match, or None
NameEqMatch(s) ==
    LET starts == {i \in 0 .. Len(s) :
                      /\ i + 6 <= Len(s)
                      /\ SubSeq(s, i + 1, i + 5) = STR_name_eq
                      /\ s[i + 6] # ","}
    IN IF starts = {} THEN NoneText
       ELSE LET i == CHOOSE j \in starts : \A k \in starts : j <= k
                stop == {k \in (i + 6) .. Len(s) : s[k] = ","}
                last == IF stop = {} THEN Len(s)
                        ELSE (CHOOSE k \in stop : \A l \in stop : k <= l) - 1
            IN SubSeq(s, i + 6, last)

\* metrics_processor.py:112-120
SprintCandidateName(s) ==
    IF s.kind = "obj" THEN s.name
    ELSE IF s.kind = "dict" THEN s.name
    ELSE IF NameEqMatch(s.text) # NoneText THEN NameEqMatch(s.text) ELSE s.text

\* SprintLoopStep comparing with > : the first of several equal dates is kept
SprintLoopStep_Strict(loc, s) ==
    LET s_name_temp == SprintCandidateName(s)
        current_date == _parse_sprint_date(s_name_temp)
    IN IF current_date > loc.best_date
       THEN [loc EXCEPT !.best_date = current_date,
                        !.best_sprint = s,
                        !.sprint_name = s_name_temp]
       ELSE loc

\* metrics_processor.py:111-134, one iteration of `for s in raw_sprint`
SprintLoopStep(loc, s) ==
    LET s_name_temp == SprintCandidateName(s)
        current_date == _parse_sprint_date(s_name_temp)
    IN IF current_date >= loc.best_date
       THEN [loc EXCEPT !.best_date = current_date,
                        !.best_sprint = s,
                        !.sprint_name = s_name_temp]
       ELSE loc

\* metrics_processor.py:136-143: only an object has the attribute goal
SprintGoal(last_sprint) ==
    IF last_sprint.kind = "obj" /\ last_sprint.goal # NoneText THEN last_sprint.goal ELSE <<>>

\* metrics_processor.py:166-167
NormalizeStatus(raw) ==
    IF raw = NoneText \/ raw = <<>> THEN <<>> ELSE StrLower(StrStrip(raw, {"-", " "}))

\* Accumulate with "finished" missing from the review bucket's list
Accumulate_NoFinished(loc, duration_days) ==
    IF loc.current_status \in TrackedStatuses
    THEN [loc EXCEPT
            !.time_in_progress_days = @ + duration_days,
            !.dev_time_days =
                IF loc.current_status = STR_started THEN @ + duration_days ELSE @,
            !.review_time_days =
                IF loc.current_status = STR_peer_review THEN @ + duration_days ELSE @,
            !.acceptance_time_days =
                IF loc.current_status = STR_delivered THEN @ + duration_days ELSE @]
    ELSE loc

\* metrics_processor.py:172-181 and :193-204: add a duration to the total and
\* to the bucket of current_status
Accumulate(loc, duration_days) ==
    IF loc.current_status \in TrackedStatuses
    THEN [loc EXCEPT
            !.time_in_progress_days = @ + duration_days,
            !.dev_time_days =
                IF loc.current_status = STR_started THEN @ + duration_days ELSE @,
            !.review_time_days =
                IF loc.current_status # STR_started
                   /\ loc.current_status \in {STR_peer_review, STR_finished}
                THEN @ + duration_days ELSE @,
            !.acceptance_time_days =
                IF loc.current_status # STR_started
                   /\ loc.current_status \notin {STR_peer_review, STR_finished}
                   /\ loc.current_status = STR_delivered
                THEN @ + duration_days ELSE @]
    ELSE loc

\* StatusItemStep testing the status the item is in, not the event's fromString,
\* for a rejection
StatusItemStep_RejectByCurrent(loc, item, change_time) ==
    IF item.field = "status"
    THEN
      LET to_status == NormalizeStatus(item.toString)
          duration_days == calculate_business_days(loc.last_change_time, change_time)
          acc == Accumulate(loc, duration_days)
          isRejection == loc.current_status = STR_delivered /\ to_status = STR_rejected
      IN [acc EXCEPT
            !.rejection_count = IF isRejection THEN @ + 1 ELSE @,
            !.was_rejected = IF isRejection THEN TRUE ELSE @,
            !.current_status = to_status,
            !.last_change_time = change_time]
    ELSE loc

\* StatusItemStep attributing the duration to the event's fromString instead of
\* the status the item is in
StatusItemStep_ByFromStatus(loc, item, change_time) ==
    IF item.field = "status"
    THEN
      LET from_status == NormalizeStatus(item.fromString)
          to_status == NormalizeStatus(item.toString)
          duration_days == calculate_business_days(loc.last_change_time, change_time)
          acc == [Accumulate([loc EXCEPT !.current_status = from_status], duration_days)
                     EXCEPT !.current_status = loc.current_status]
          isRejection == from_status = STR_delivered /\ to_status = STR_rejected
      IN [acc EXCEPT
            !.rejection_count = IF isRejection THEN @ + 1 ELSE @,
            !.was_rejected = IF isRejection THEN TRUE ELSE @,
            !.current_status = to_status,
            !.last_change_time = change_time]
    ELSE loc

\* metrics_processor.py:163-190, one iteration of `for item in history.items`
StatusItemStep(loc, item, change_time) ==
    IF item.field = "status"
    THEN
      LET from_status == NormalizeStatus(item.fromString)
          to_status == NormalizeStatus(item.toString)
          duration_days == calculate_business_days(loc.last_change_time, change_time)
          acc == Accumulate(loc, duration_days)
          isRejection == from_status = STR_delivered /\ to_status = STR_rejected
      IN [acc EXCEPT
            !.rejection_count = IF isRejection THEN @ + 1 ELSE @,
            !.was_rejected = IF isRejection THEN TRUE ELSE @,
            !.current_status = to_status,
            !.last_change_time = change_time]
    ELSE loc

\* OpenItemStep adding the time up to now to the total whatever the final status
OpenItemStep_AnyStatus(loc, now) ==
    IF loc.current_status \in TrackedStatuses
    THEN Accumulate([loc EXCEPT !.now = Some(now)],
                    calculate_business_days(loc.last_change_time, now))
    ELSE [loc EXCEPT !.now = Some(now),
                     !.time_in_progress_days =
                         @ + calculate_business_days(loc.last_change_time, now)]

\* metrics_processor.py:192-204
OpenItemStep(loc, now) ==
    IF loc.current_status \in TrackedStatuses
    THEN Accumulate([loc EXCEPT !.now = Some(now)],
                    calculate_business_days(loc.last_change_time, now))
    ELSE loc

\* round half to even of n / d, d > 0
RoundDiv(n, d) ==
    LET q == n \div d
        r == n - q * d
    IN IF 2 * r < d THEN q
       ELSE IF 2 * r > d THEN q + 1
       ELSE IF q % 2 = 0 THEN q ELSE q + 1

\* round(x, 2) of a duration kept in ticks: the result in hundredths of a day
Round2(ticks) == RoundDiv(ticks * 100, TicksPerDay)

\* metrics_processor.py:216
StatusClean(raw_status) == StrStrip(StrRemoveChar(StrLower(raw_status), "-"), Whitespace)

(* metrics_processor.py:206-260.  Durations are in hundredths of a day.
   The field Timestamp (the wall clock at return) is left out. *)
AssembleRecord(iss, loc) ==
    LET status_clean == StatusClean(iss.status)
    IN [Issue_Key |-> iss.key,
        Issue_Type |-> iss.issuetype,
        Story_Points |-> IF iss.story_points = NoneNum THEN 0 ELSE iss.story_points[1],
        Sprint_Name |-> loc.sprint_name,
        Days_In_Progress |-> Round2(loc.time_in_progress_days),
        Dev_Cycle_Time |-> Round2(loc.dev_time_days),
        Review_Cycle_Time |-> Round2(loc.review_time_days),
        Acceptance_Cycle_Time |-> Round2(loc.acceptance_time_days),
        Rejection_Count |-> loc.rejection_count,
        Reached_Delivered |-> IF status_clean \in DELIVERY_STATUSES THEN 1 ELSE 0,
        Status |-> StrTitle(status_clean),
        Was_Rejected |-> IF loc.was_rejected THEN "Yes" ELSE "No",
        Created_Date |-> iss.created,
        Sprint_Start_Date |-> IF loc.best_date # DatetimeMin THEN Some(loc.best_date) ELSE NoneNum]

\* best_sprint = None
NoCandidate == [kind |-> "none", name |-> NoneText, goal |-> NoneText, text |-> NoneText]

\* the locals of process_issue_metrics at entry
InitialLocals ==
    [sprint_name |-> STR_Unknown_Sprint,
     best_sprint |-> NoCandidate,
     best_date |-> DatetimeMin,
     histories |-> <<>>,
     time_in_progress_days |-> 0,
     dev_time_days |-> 0,
     review_time_days |-> 0,
     acceptance_time_days |-> 0,
     rejection_count |-> 0,
     was_rejected |-> FALSE,
     current_status |-> STR_To_Do,
     last_change_time |-> 0,
     now |-> NoneNum]

---------------------------------------------------------------------------
(* Scoring configuration, config.py:38-65.  Weights are in percent. *)

WEIGHT_VELOCITY == 60
WEIGHT_QUALITY == 25
WEIGHT_FLOW == 15
VELOCITY_WEIGHT_THROUGHPUT == 60
VELOCITY_WEIGHT_EFFICIENCY == 40
QUALITY_WEIGHT_BUGS == 60
QUALITY_WEIGHT_REJECTIONS == 40
MEDIAN_BASELINE_SCORE == 70
EXCELLENCE_SCORE == 100
BUG_PENALTY_PER_BUG == 20
BUG_PENALTY_CAP == 5
FLOW_DEFAULT_SCORE == 70
SPRINT_DURATION_DAYS == 6

---------------------------------------------------------------------------
(* calculate_scores, dashboard_calculator.py:26-238

   metrics_df is a sequence of the records of process_issue_metrics, flow_df
   a sequence of [sprint_name, flow_score_raw].  Numbers with decimals are
   kept as integers: durations and cycle times in hundredths of a day, scores
   and the rejection ratio in tenths, raw survey scores in tenths.  A value
   that need not be a multiple of a tenth (a mean, a median) is a fraction
   [n, d]; d = 0 is NaN.  round() is round-half-even of the exact value. *)

Max(a, b) == IF a >= b THEN a ELSE b

Min(a, b) == IF a <= b THEN a ELSE b

Range(seq) == {seq[i] : i \in 1..Len(seq)}

RECURSIVE SeqSum(_)
SeqSum(seq) == IF Len(seq) = 0 THEN 0 ELSE seq[1] + SeqSum(Tail(seq))

NaN == [n |-> 0, d |-> 0]

IsNaN(x) == x.d = 0

\* the distinct Sprint Name values of a frame, in order of first appearance
RECURSIVE SprintNames(_)
SprintNames(df) ==
    IF Len(df) = 0 THEN <<>>
    ELSE LET rest == SprintNames(SubSeq(df, 1, Len(df) - 1))
             name == df[Len(df)].Sprint_Name
         IN IF name \in Range(rest) THEN rest ELSE Append(rest, name)

\* dashboard_calculator.py:37-38
WithParsedDates(df) ==
    [i \in 1..Len(df) |->
        [df[i] EXCEPT !.Sprint_Start_Date = _parse_sprint_date(df[i].Sprint_Name)]]

\* Series.max() of the column Sprint Start Date of a non-empty frame
MostRecentSprintDate(df) ==
    CHOOSE d \in {df[i].Sprint_Start_Date : i \in 1..Len(df)} :
        \A i \in 1..Len(df) : df[i].Sprint_Start_Date <= d

\* dashboard_calculator.py:43-48 and :210-214
ExcludeActiveSprint(df) ==
    IF Len(df) = 0 THEN df
    ELSE LET most_recent_sprint_date == MostRecentSprintDate(df)
         IN SelectSeq(df, LAMBDA r : r.Sprint_Start_Date < most_recent_sprint_date)

\* dashboard_calculator.py:51
DoneMask(r) == StrLower(r.Status) \in COMPLETION_STATUSES

\* dashboard_calculator.py:67
NonTaskMask(r) == r.Issue_Type # "Task"

\* groupby('Sprint Name')[column].sum() for one group
GroupSum(df, name, column) ==
    SeqSum([i \in 1..Len(df) |-> IF df[i].Sprint_Name = name THEN df[i][column] ELSE 0])

\* groupby('Sprint Name').size() for one group
GroupSize(df, name) ==
    Cardinality({i \in 1..Len(df) : df[i].Sprint_Name = name})

\* SprintsWithDates without the sprints of the most recent start date
SprintsWithDates_PastOnly(df) ==
    SelectSeq(SprintNames(df),
              LAMBDA name : /\ _parse_sprint_date(name) # DatetimeMin
                            /\ _parse_sprint_date(name) < MostRecentSprintDate(WithParsedDates(df)))

\* dashboard_calculator.py:250-253: the sprints with a start date, each once
SprintsWithDates(df) ==
    SelectSeq(SprintNames(df), LAMBDA name : _parse_sprint_date(name) # DatetimeMin)

\* BugsCreatedIn counting only the defects assigned to the sprint itself
BugsCreatedIn_AssignedOnly(df, name) ==
    LET start_date == _parse_sprint_date(name)
        end_date == start_date + SPRINT_DURATION_DAYS * TicksPerDay
    IN Cardinality({i \in 1..Len(df) :
                       /\ df[i].Issue_Type = "Bug"
                       /\ df[i].Sprint_Name = name
                       /\ df[i].Created_Date >= start_date
                       /\ df[i].Created_Date <= end_date})

\* dashboard_calculator.py:255-279: Bugs Created of one sprint
BugsCreatedIn(df, name) ==
    LET start_date == _parse_sprint_date(name)
        end_date == start_date + SPRINT_DURATION_DAYS * TicksPerDay
    IN Cardinality({i \in 1..Len(df) :
                       /\ df[i].Issue_Type = "Bug"
                       /\ df[i].Created_Date >= start_date
                       /\ df[i].Created_Date <= end_date})

\* dashboard_calculator.py:241-281
_count_bugs_created_in_sprint_periods(df) ==
    LET sprints == SprintsWithDates(df)
    IN [i \in 1..Len(sprints) |->
           [Sprint_Name |-> sprints[i], Bugs_Created |-> BugsCreatedIn(df, sprints[i])]]

\* a / b rounded to k decimals of the unit, as an integer: 0 when b is 0
RoundedRatio(a, b) == IF b > 0 THEN RoundDiv(a, b) ELSE 0

(* dashboard_calculator.py:50-130: the outer merge of the per-sprint
   aggregates, NaN filled with 0, and the columns derived row by row.
   done and nontask are the frames under done_mask and non_task_mask,
   bugs the frame of _count_bugs_created_in_sprint_periods. *)
AggregateRow(name, done, nontask, bugs) ==
    LET tickets == GroupSize(done, name)
        points == GroupSum(done, name, "Story_Points")
        days == GroupSum(done, name, "Days_In_Progress")
        dev == GroupSum(done, name, "Dev_Cycle_Time")
        review == GroupSum(done, name, "Review_Cycle_Time")
        acceptance == GroupSum(done, name, "Acceptance_Cycle_Time")
        delivered == GroupSum(nontask, name, "Reached_Delivered")
        rejections == GroupSum(nontask, name, "Rejection_Count")
        bugs_created == GroupSum(bugs, name, "Bugs_Created")
        ratio == IF delivered > 0 THEN RoundDiv(rejections * 1000, delivered) ELSE 0
    IN [Sprint_Name |-> name,
        Completed_Tickets |-> tickets,
        Total_Story_Points |-> points,
        Days_In_Progress |-> days,
        Dev_Cycle_Time |-> dev,
        Review_Cycle_Time |-> review,
        Acceptance_Cycle_Time |-> acceptance,
        Reached_Delivered |-> delivered,
        Rejection_Count |-> rejections,
        Bugs_Created |-> bugs_created,
        Avg_Cycle_Time_per_Ticket |-> RoundedRatio(days, tickets),
        Avg_Dev_Cycle_Time_per_Ticket |-> RoundedRatio(dev, tickets),
        Avg_Review_Cycle_Time_per_Ticket |-> RoundedRatio(review, tickets),
        Avg_Acceptance_Cycle_Time_per_Ticket |-> RoundedRatio(acceptance, tickets),
        Avg_Cycle_Time_per_Point |-> RoundedRatio(days, points),
        Rejection_Ratio |-> ratio,
        Bug_Score |-> 10 * Max(0, EXCELLENCE_SCORE
                                   - Min(bugs_created, BUG_PENALTY_CAP) * BUG_PENALTY_PER_BUG),
        Rejection_Score |-> Max(0, 10 * EXCELLENCE_SCORE - ratio)]

\* dashboard_calculator.py:36-130: the dashboard before the survey is merged
AggregateDashboard(df0) ==
    LET df == WithParsedDates(df0)
        unfiltered_metrics_df == df
        filtered == ExcludeActiveSprint(df)
        done == SelectSeq(filtered, DoneMask)
        nontask == SelectSeq(filtered, NonTaskMask)
        bugs == _count_bugs_created_in_sprint_periods(unfiltered_metrics_df)
        names == SprintNames(done \o nontask \o bugs)
    IN [i \in 1..Len(names) |-> AggregateRow(names[i], done, nontask, bugs)]

\* whether calculate_scores raises before scoring: a frame without rows has no
\* column Sprint Name (line 37), nor has the frame of bug counts when no
\* sprint has a start date (line 86)
AggregationRaises(df0) ==
    \/ Len(df0) = 0
    \/ Len(SprintsWithDates(df0)) = 0

\* dashboard_calculator.py:133-134: the left merge with the survey; a sprint
\* with k > 1 survey rows yields k rows, a sprint with none one row with NaN
RECURSIVE MergeFlow(_, _)
MergeFlow(dash, flow) ==
    IF Len(dash) = 0 THEN <<>>
    ELSE LET row == dash[1]
             hits == SelectSeq(flow, LAMBDA f : f.sprint_name = row.Sprint_Name)
             merged == IF Len(hits) = 0
                       THEN << [row |-> row, Flow_Survey_Score |-> NaN] >>
                       ELSE [i \in 1..Len(hits) |->
                               [row |-> row,
                                Flow_Survey_Score |-> [n |-> hits[i].flow_score_raw, d |-> 10]]]
         IN merged \o MergeFlow(Tail(dash), flow)

\* the imputed value taken to be the default whatever the survey holds
AvgFlowScore_AlwaysDefault(merged) == [n |-> FLOW_DEFAULT_SCORE, d |-> 1]

\* dashboard_calculator.py:137-141: the mean of the scores present, else the default
AvgFlowScore(merged) ==
    LET present == SelectSeq(merged, LAMBDA m : ~IsNaN(m.Flow_Survey_Score))
    IN IF Len(present) = 0
       THEN [n |-> FLOW_DEFAULT_SCORE, d |-> 1]
       ELSE [n |-> SeqSum([i \in 1..Len(present) |-> present[i].Flow_Survey_Score.n]),
             d |-> 10 * Len(present)]

\* the k-th smallest of a non-empty sequence of integers
KthSmallest(values, k) ==
    CHOOSE x \in Range(values) :
        /\ Cardinality({i \in 1..Len(values) : values[i] < x}) < k
        /\ k <= Cardinality({i \in 1..Len(values) : values[i] <= x})

\* Series.median() of the positive values, dashboard_calculator.py:152-153
MedianOfPositive(values) ==
    LET positive == SelectSeq(values, LAMBDA v : v > 0)
        count == Len(positive)
    IN IF count = 0 THEN NaN
       ELSE IF count % 2 = 1
            THEN [n |-> KthSmallest(positive, (count + 1) \div 2), d |-> 1]
            ELSE [n |-> KthSmallest(positive, count \div 2)
                        + KthSmallest(positive, count \div 2 + 1),
                  d |-> 2]

\* Series.round(1) of a score given as a fraction, in tenths
RoundTenths(x) == IF IsNaN(x) THEN NaN ELSE RoundDiv(10 * x.n, x.d)

CapAtExcellence(score) ==
    IF score.n >= EXCELLENCE_SCORE * score.d THEN [n |-> EXCELLENCE_SCORE, d |-> 1] ELSE score

\* the curve of calc_throughput_score with the baseline left out of the
\* branch at or above the median
calc_throughput_score_NoBaseline(actual_tickets, median_tickets) ==
    IF actual_tickets <= 0 \/ (~IsNaN(median_tickets) /\ median_tickets.n <= 0)
    THEN [n |-> 0, d |-> 1]
    ELSE IF IsNaN(median_tickets) THEN NaN
    ELSE IF actual_tickets * median_tickets.d >= median_tickets.n
         THEN CapAtExcellence(
                  [n |-> (actual_tickets * median_tickets.d - median_tickets.n)
                         * EXCELLENCE_SCORE,
                   d |-> median_tickets.n])
         ELSE [n |-> MEDIAN_BASELINE_SCORE * actual_tickets * median_tickets.d,
               d |-> median_tickets.n]

\* dashboard_calculator.py:156-164
calc_throughput_score(actual_tickets, median_tickets) ==
    IF actual_tickets <= 0 \/ (~IsNaN(median_tickets) /\ median_tickets.n <= 0)
    THEN [n |-> 0, d |-> 1]
    ELSE IF IsNaN(median_tickets) THEN NaN
    ELSE IF actual_tickets * median_tickets.d >= median_tickets.n
         THEN CapAtExcellence(
                  [n |-> MEDIAN_BASELINE_SCORE * median_tickets.n
                         + (actual_tickets * median_tickets.d - median_tickets.n)
                           * EXCELLENCE_SCORE,
                   d |-> median_tickets.n])
         ELSE [n |-> MEDIAN_BASELINE_SCORE * actual_tickets * median_tickets.d,
               d |-> median_tickets.n]

\* dashboard_calculator.py:169-177
calc_efficiency_score(actual_cycle_time, median_cycle_time) ==
    IF actual_cycle_time <= 0 \/ (~IsNaN(median_cycle_time) /\ median_cycle_time.n <= 0)
    THEN [n |-> 0, d |-> 1]
    ELSE IF IsNaN(median_cycle_time) THEN NaN
    ELSE IF actual_cycle_time * median_cycle_time.d <= median_cycle_time.n
         THEN CapAtExcellence(
                  [n |-> MEDIAN_BASELINE_SCORE * median_cycle_time.n
                         + (median_cycle_time.n - actual_cycle_time * median_cycle_time.d)
                           * EXCELLENCE_SCORE,
                   d |-> median_cycle_time.n])
         ELSE [n |-> MEDIAN_BASELINE_SCORE * median_cycle_time.n,
               d |-> median_cycle_time.d * actual_cycle_time]

\* the flow score without the clamp to [0, EXCELLENCE_SCORE]
FlowScore_Unclamped(x) == IF IsNaN(x) THEN 0 ELSE RoundDiv(10 * x.n, x.d)

\* dashboard_calculator.py:193-195
FlowScore(x) ==
    IF IsNaN(x) THEN 0
    ELSE IF x.n <= 0 THEN 0
    ELSE IF x.n >= EXCELLENCE_SCORE * x.d THEN 10 * EXCELLENCE_SCORE
    ELSE RoundDiv(10 * x.n, x.d)

\* the final index with the weights of flow and quality exchanged
FinalIndex_WeightsExchanged(velocity, flow, quality) ==
    RoundDiv(velocity * WEIGHT_VELOCITY + flow * WEIGHT_QUALITY + quality * WEIGHT_FLOW, 100)

\* dashboard_calculator.py:200-204, scores in tenths
FinalIndex(velocity, flow, quality) ==
    RoundDiv(velocity * WEIGHT_VELOCITY + flow * WEIGHT_FLOW + quality * WEIGHT_QUALITY, 100)

\* dashboard_calculator.py:147-204 for one row of the merged frame; the
\* result has the columns of final_cols and the Sprint Start Date of line 207
ScoreRow(m, avg_flow_score, median_tickets, median_cycle_time) ==
    LET row == m.row
        imputed == IsNaN(m.Flow_Survey_Score)
        survey == IF imputed THEN avg_flow_score ELSE m.Flow_Survey_Score
        throughput == RoundTenths(calc_throughput_score(row.Completed_Tickets, median_tickets))
        efficiency == RoundTenths(calc_efficiency_score(row.Avg_Cycle_Time_per_Ticket,
                                                        median_cycle_time))
        velocity == RoundDiv(throughput * VELOCITY_WEIGHT_THROUGHPUT
                             + efficiency * VELOCITY_WEIGHT_EFFICIENCY, 100)
        quality == RoundDiv(row.Bug_Score * QUALITY_WEIGHT_BUGS
                            + row.Rejection_Score * QUALITY_WEIGHT_REJECTIONS, 100)
        flow == FlowScore(survey)
    IN [Sprint_Name |-> row.Sprint_Name,
        Completed_Tickets |-> row.Completed_Tickets,
        Total_Story_Points |-> row.Total_Story_Points,
        Avg_Cycle_Time_per_Ticket |-> row.Avg_Cycle_Time_per_Ticket,
        Avg_Dev_Cycle_Time_per_Ticket |-> row.Avg_Dev_Cycle_Time_per_Ticket,
        Avg_Review_Cycle_Time_per_Ticket |-> row.Avg_Review_Cycle_Time_per_Ticket,
        Avg_Acceptance_Cycle_Time_per_Ticket |-> row.Avg_Acceptance_Cycle_Time_per_Ticket,
        Bugs_Created |-> row.Bugs_Created,
        Bug_Score |-> row.Bug_Score,
        Rejection_Ratio |-> row.Rejection_Ratio,
        Rejection_Score |-> row.Rejection_Score,
        Flow_Survey_Score |-> survey,
        Flow_Score_Imputed |-> imputed,
        Throughput_Score |-> throughput,
        Efficiency_Score |-> efficiency,
        Velocity_Score |-> velocity,
        Quality_Score |-> quality,
        Flow_Score |-> flow,
        FINAL_AI_IMPACT_INDEX |-> FinalIndex(velocity, flow, quality),
        Sprint_Start_Date |-> _parse_sprint_date(row.Sprint_Name)]

\* dashboard_calculator.py:132-204
ScoreDashboard(dash, flow) ==
    LET merged == MergeFlow(dash, flow)
        avg_flow_score == AvgFlowScore(merged)
        median_tickets ==
            MedianOfPositive([i \in 1..Len(merged) |-> merged[i].row.Completed_Tickets])
        median_cycle_time ==
            MedianOfPositive([i \in 1..Len(merged) |-> merged[i].row.Avg_Cycle_Time_per_Ticket])
    IN [i \in 1..Len(merged) |->
           ScoreRow(merged[i], avg_flow_score, median_tickets, median_cycle_time)]

\* sort_values(by='Sprint Start Date', ascending=False), line 208; rows of
\* equal date keep their order
RECURSIVE InsertByDateDesc(_, _)
InsertByDateDesc(sorted, row) ==
    IF Len(sorted) = 0 THEN <<row>>
    ELSE IF sorted[Len(sorted)].Sprint_Start_Date >= row.Sprint_Start_Date
         THEN Append(sorted, row)
         ELSE Append(InsertByDateDesc(SubSeq(sorted, 1, Len(sorted) - 1), row),
                     sorted[Len(sorted)])

RECURSIVE SortByDateDesc(_)
SortByDateDesc(rows) ==
    IF Len(rows) = 0 THEN <<>>
    ELSE InsertByDateDesc(SortByDateDesc(SubSeq(rows, 1, Len(rows) - 1)), rows[Len(rows)])

\* dashboard_calculator.py:206-214 without the second exclusion
FinalTable_KeepActive(scored) == SortByDateDesc(scored)

\* dashboard_calculator.py:206-238
FinalTable(scored) == ExcludeActiveSprint(SortByDateDesc(scored))

---------------------------------------------------------------------------
(* The steps of one call of process_issue_metrics *)

\* a timestamp string that strptime does not accept
Unparsable == -1

\* metrics_processor.py:88-108
PIM_Begin ==
    /\ pc = "begin"
    /\ locals' = [InitialLocals EXCEPT !.histories = SortedByCreated(issue.histories)]
    /\ pc' = IF Len(issue.raw_sprint) > 0 THEN "sprint" ELSE "accumulators"
    /\ s_idx' = 1
    /\ UNCHANGED <<issue, h_idx, i_idx, result>>
    /\ UNCHANGED notItemVars

\* metrics_processor.py:111-134
PIM_SprintCandidate ==
    /\ pc = "sprint"
    /\ s_idx <= Len(issue.raw_sprint)
    /\ locals' = SprintLoopStep(locals, issue.raw_sprint[s_idx])
    /\ s_idx' = s_idx + 1
    /\ UNCHANGED <<issue, pc, h_idx, i_idx, result>>
    /\ UNCHANGED notItemVars

\* metrics_processor.py:136-147
PIM_TeamFilter ==
    /\ pc = "sprint"
    /\ s_idx > Len(issue.raw_sprint)
    /\ pc' = IF StrContains(FIELD_TEAM_FILTER_VALUE, SprintGoal(locals.best_sprint))
             THEN "accumulators" ELSE "done"
    /\ UNCHANGED <<issue, locals, s_idx, h_idx, i_idx, result>>
    /\ UNCHANGED notItemVars

\* metrics_processor.py:149-158
PIM_InitAccumulators ==
    /\ pc = "accumulators"
    /\ issue.created # Unparsable
    /\ locals' = [locals EXCEPT !.current_status = STR_To_Do,
                          !.last_change_time = issue.created]
    /\ h_idx' = 1
    /\ i_idx' = 1
    /\ pc' = "history"
    /\ UNCHANGED <<issue, s_idx, result>>
    /\ UNCHANGED notItemVars

\* metrics_processor.py:163-190, the body of the inner loop for one item
PIM_StatusItem ==
    /\ pc = "history"
    /\ h_idx <= Len(locals.histories)
    /\ locals.histories[h_idx].created # Unparsable
    /\ i_idx <= Len(locals.histories[h_idx].items)
    /\ locals' = StatusItemStep(locals, locals.histories[h_idx].items[i_idx],
                             locals.histories[h_idx].created)
    /\ i_idx' = i_idx + 1
    /\ UNCHANGED <<issue, pc, s_idx, h_idx, result>>
    /\ UNCHANGED notItemVars

\* metrics_processor.py:160-161, the outer loop moves to the next history
PIM_NextHistory ==
    /\ pc = "history"
    /\ h_idx <= Len(locals.histories)
    /\ locals.histories[h_idx].created # Unparsable
    /\ i_idx > Len(locals.histories[h_idx].items)
    /\ h_idx' = h_idx + 1
    /\ i_idx' = 1
    /\ UNCHANGED <<issue, locals, pc, s_idx, result>>
    /\ UNCHANGED notItemVars

\* metrics_processor.py:158 and :161: strptime raises ValueError for a
\* timestamp that is not of the format
PIM_Raise ==
    /\ \/ /\ pc = "accumulators"
          /\ issue.created = Unparsable
       \/ /\ pc = "history"
          /\ h_idx <= Len(locals.histories)
          /\ locals.histories[h_idx].created = Unparsable
    /\ pc' = "raised"
    /\ UNCHANGED <<issue, locals, s_idx, h_idx, i_idx, result>>
    /\ UNCHANGED notItemVars

\* metrics_processor.py:192-204; now is datetime.datetime.now(timezone.utc)
PIM_OpenItem(now) ==
    /\ pc = "history"
    /\ h_idx > Len(locals.histories)
    /\ locals' = OpenItemStep(locals, now)
    /\ pc' = "assemble"
    /\ UNCHANGED <<issue, s_idx, h_idx, i_idx, result>>
    /\ UNCHANGED notItemVars

\* metrics_processor.py:206-260
PIM_Return ==
    /\ pc = "assemble"
    /\ result' = <<AssembleRecord(issue, locals)>>
    /\ pc' = "done"
    /\ UNCHANGED <<issue, locals, s_idx, h_idx, i_idx>>
    /\ UNCHANGED notItemVars

---------------------------------------------------------------------------
(* Inputs of SpecItem *)

At(day, tick) == StartOfDay(day) + tick

RAW_To_Do == <<"T","o"," ","D","o">>
RAW_Started == <<"S","t","a","r","t","e","d">>
RAW_Peer_Review == <<"P","e","e","r"," ","R","e","v","i","e","w">>
RAW_Finished == <<"F","i","n","i","s","h","e","d">>
RAW_Delivered == <<"D","e","l","i","v","e","r","e","d">>
RAW_Rejected == <<"R","e","j","e","c","t","e","d">>
RAW_Accepted == <<"A","c","c","e","p","t","e","d">>
RAW_DELIVERED_sp == <<"D","E","L","I","V","E","R","E","D"," ">>
RAW_dash_rejected == <<"-"," ","r","e","j","e","c","t","e","d">>
RAW_Closed_Completed == <<"C","l","o","s","e","d","-","C","o","m","p","l","e","t","e","d">>

NAME_A == <<"I","t","e","r","a","t","i","o","n"," ","0","1",".","0","6",".","2","5">>
NAME_B == <<"I","t","e","r","a","t","i","o","n"," ","0","1",".","1","3",".","2","5">>
NAME_B2 == <<"I","t","e","r","a","t","i","o","n"," ","0","1",".","1","3",".","2","5"," ","B">>
NAME_Old == <<"I","t","e","r","a","t","i","o","n"," ","1","2",".","3","0",".","2","4">>
NAME_Bad == <<"I","t","e","r","a","t","i","o","n"," ","1","3",".","4","5",".","2","5">>
NAME_Kanban == <<"K","a","n","b","a","n"," ","b","o","a","r","d">>

GOAL_Foundation == <<"F","o","u","n","d","a","t","i","o","n"," ","g","o","a","l","s">>
GOAL_foundation_lc == <<"f","o","u","n","d","a","t","i","o","n"," ","g","o","a","l","s">>
GOAL_Platform == <<"P","l","a","t","f","o","r","m">>

StatusChange(from, to) == [field |-> "status", fromString |-> from, toString |-> to]

OtherChange(from, to) == [field |-> "assignee", fromString |-> from, toString |-> to]

ObjSprint(name, goal) == [kind |-> "obj", name |-> name, goal |-> goal, text |-> NoneText]

\* the items of one changelog history
ItemLists ==
    { <<StatusChange(RAW_To_Do, RAW_Started)>>,
      <<StatusChange(RAW_Started, RAW_Peer_Review)>>,
      <<StatusChange(RAW_Peer_Review, RAW_Finished)>>,
      <<StatusChange(RAW_Finished, RAW_Delivered)>>,
      <<StatusChange(RAW_Delivered, RAW_Rejected)>>,
      <<StatusChange(RAW_DELIVERED_sp, RAW_dash_rejected)>>,
      <<OtherChange(RAW_Delivered, RAW_Rejected), StatusChange(RAW_Delivered, RAW_Accepted)>> }

\* Monday afternoon, Tuesday 00:00
ItemEventTimes == {At(0, 2), At(1, 0)}

ItemHistories == [created : ItemEventTimes, items : ItemLists]

ItemHistorySeqs == UNION {[1..n -> ItemHistories] : n \in 0..MaxHistories}

\* Saturday later, Monday of the next week
ItemNowTimes == {At(5, 2), At(7, 1)}

DictSprint(name, goal) == [kind |-> "dict", name |-> name, goal |-> goal, text |-> NoneText]

StrSprint(text) == [kind |-> "str", name |-> NoneText, goal |-> NoneText, text |-> text]

\* "id=7,name=Iteration 01.13.25,goal=Foundation"
TEXT_SprintB ==
    <<"i","d","=","7",",","n","a","m","e","=">> \o NAME_B
        \o <<",","g","o","a","l","=">> \o FIELD_TEAM_FILTER_VALUE

\* the sprint candidates of SprintIssues: 01.06.25 < 01.13.25 = 01.13.25 (B2);
\* 12.30.24 is the earliest date; 13.45.25 matches the pattern and is no date
SprintCandidates ==
    { ObjSprint(NAME_A, GOAL_Foundation),
      ObjSprint(NAME_B, GOAL_Foundation),
      ObjSprint(NAME_B2, GOAL_Platform),
      ObjSprint(NAME_Old, GOAL_foundation_lc),
      ObjSprint(NAME_Bad, GOAL_Foundation),
      ObjSprint(NAME_Kanban, NoneText),
      DictSprint(NAME_A, GOAL_Foundation),
      StrSprint(TEXT_SprintB) }

SprintLists == UNION {[1..n -> SprintCandidates] : n \in 0..MaxSprints}

\* issues with many sprint lists and a short history
SprintIssues ==
    [key : {"PROJ-2"},
     story_points : {NoneNum},
     created : {At(0, 1)},
     status : {RAW_Closed_Completed},
     issuetype : {"Bug"},
     raw_sprint : SprintLists,
     histories : {<<>>,
                  <<[created |-> At(1, 0),
                     items |-> <<StatusChange(RAW_To_Do, RAW_Started)>>]>>}]

\* issues with a creation time or a history time that strptime rejects
MalformedIssues ==
    [key : {"PROJ-3"},
     story_points : {NoneNum},
     created : {At(0, 1), Unparsable},
     status : {RAW_Started},
     issuetype : {"Story"},
     raw_sprint : {<<>>, <<ObjSprint(NAME_A, GOAL_Foundation)>>},
     histories : {<<[created |-> Unparsable,
                     items |-> <<OtherChange(RAW_To_Do, RAW_Started)>>]>>,
                  <<[created |-> At(1, 0),
                     items |-> <<StatusChange(RAW_To_Do, RAW_Started)>>],
                    [created |-> Unparsable,
                     items |-> <<StatusChange(RAW_Started, RAW_Finished)>>]>>}]

\* issues with many histories and one sprint candidate
ItemIssues ==
    [key : {"PROJ-1"},
     story_points : {Some(3)},
     created : {At(0, 1)},
     status : {RAW_Delivered},
     issuetype : {"Story"},
     raw_sprint : {<<ObjSprint(NAME_A, GOAL_Foundation)>>,
                   <<ObjSprint(NAME_A, GOAL_Platform)>>},
     histories : ItemHistorySeqs]

\* run is not under way
RunIdle ==
    /\ jira_issues = <<>>
    /\ run_idx = 1
    /\ raw_metrics = <<>>
    /\ run_pc = "idle"
    /\ clock = 0
    /\ now_reads = <<>>

\* no call of calculate_scores is under way
CSIdle ==
    /\ metrics_df = <<>>
    /\ flow_df = <<>>
    /\ dashboard = <<>>
    /\ cs_pc = "idle"
    /\ table = <<>>

\* the harness of the scoring curves is not in use
CurveIdle ==
    /\ actual_lo = 0
    /\ actual_hi = 0
    /\ median = NaN
    /\ score_lo = 0
    /\ score_hi = 0
    /\ curve_pc = "idle"

\* the harness of calculate_business_days is not in use
BDIdle ==
    /\ start_datetime = 0
    /\ end_datetime = 0
    /\ end_datetime2 = 0
    /\ duration1 = 0
    /\ duration2 = 0
    /\ bd_pc = "idle"

\* no call of process_issue_metrics is under way
NoIssue ==
    [key |-> "", story_points |-> NoneNum, created |-> 0, status |-> <<>>,
     issuetype |-> "", raw_sprint |-> <<>>, histories |-> <<>>]

ItemInit ==
    /\ BDIdle
    /\ RunIdle
    /\ CSIdle
    /\ CurveIdle
    /\ issue \in ItemIssues \cup SprintIssues \cup MalformedIssues
    /\ locals = InitialLocals
    /\ pc = "begin"
    /\ s_idx = 1
    /\ h_idx = 1
    /\ i_idx = 1
    /\ result = <<>>

ItemNext ==
    \/ PIM_Begin
    \/ PIM_SprintCandidate
    \/ PIM_TeamFilter
    \/ PIM_InitAccumulators
    \/ PIM_StatusItem
    \/ PIM_NextHistory
    \/ \E now \in ItemNowTimes : PIM_OpenItem(now)
    \/ PIM_Return
    \/ PIM_Raise

SpecItem == ItemInit /\ [][ItemNext]_vars

---------------------------------------------------------------------------
(* Claims about the status history of one item (SpecItem) *)

\* C1: at every point of the replay of an item's history, the open-item
\* carry-forward to now included, the accumulated total in-progress time
\* equals the sum of the dev, review and acceptance accumulators (before the
\* rounding to two decimals).
C1_TotalIsSumOfPhases ==
    locals.time_in_progress_days =
        locals.dev_time_days + locals.review_time_days + locals.acceptance_time_days

\* C1 witness: a record was produced for an open item carried forward to now
\* whose history put time into two different buckets.
C1_Witness ==
    /\ pc = "done"
    /\ result # <<>>
    /\ locals.now # NoneNum
    /\ locals.review_time_days # 0
    /\ locals.acceptance_time_days # 0

\* C3: each of the four duration fields of a produced record is >= 0.
C3_DurationsNonNegative ==
    (pc = "done" /\ result # <<>>) =>
        /\ result[1].Days_In_Progress >= 0
        /\ result[1].Dev_Cycle_Time >= 0
        /\ result[1].Review_Cycle_Time >= 0
        /\ result[1].Acceptance_Cycle_Time >= 0

\* the status events of the input history that are a delivered -> rejected
\* transition after normalization
RejectionEvents ==
    {e \in {<<h, i>> : h \in 1..MaxHistories, i \in 1..2} :
        /\ e[1] <= Len(issue.histories)
        /\ e[2] <= Len(issue.histories[e[1]].items)
        /\ issue.histories[e[1]].items[e[2]].field = "status"
        /\ NormalizeStatus(issue.histories[e[1]].items[e[2]].fromString) = STR_delivered
        /\ NormalizeStatus(issue.histories[e[1]].items[e[2]].toString) = STR_rejected}

\* C4: the rejection count of a produced record equals the number of status
\* events of the history whose normalized fromStatus is "delivered" and whose
\* normalized toStatus is "rejected".
C4_RejectionCount ==
    (pc = "done" /\ result # <<>>) =>
        result[1].Rejection_Count = Cardinality(RejectionEvents)

\* C4 witness: a record counting two rejections that are separated by another
\* status event, the first of them from a status the item was not in.
C4_Witness ==
    /\ pc = "done"
    /\ result # <<>>
    /\ result[1].Rejection_Count = 2
    /\ Len(locals.histories) = 3
    /\ <<2, 1>> \notin RejectionEvents
    /\ locals.histories = issue.histories

---------------------------------------------------------------------------
(* Claims about sprint resolution (SpecItem) *)

\* the parsed start dates of the candidates of the issue, in input order
CandidateDates ==
    [i \in 1..Len(issue.raw_sprint) |->
        _parse_sprint_date(SprintCandidateName(issue.raw_sprint[i]))]

\* the loop over the candidates of a non-empty list has just ended
\* (metrics_processor.py:136), or the call has returned
SprintLoopEnded ==
    /\ Len(issue.raw_sprint) > 0
    /\ \/ pc = "sprint" /\ s_idx > Len(issue.raw_sprint)
       \/ pc = "done"

\* the position sprint resolution is to select: the last one in input order
\* among those with the maximum parsed date
LastOfLatest(dates) ==
    CHOOSE i \in DOMAIN dates :
        /\ \A j \in DOMAIN dates : dates[j] <= dates[i]
        /\ \A j \in DOMAIN dates : j > i => dates[j] < dates[i]

\* C10: sprint resolution selects from an item's candidate list the candidate
\* with the maximum parsed start date, the last one in input order when several
\* share it; a candidate whose name does not parse is never selected when a
\* candidate with a parsable date exists.
C10_LatestSprintSelected ==
    SprintLoopEnded =>
        LET dates == CandidateDates
            sel == LastOfLatest(dates)
        IN /\ locals.best_sprint = issue.raw_sprint[sel]
           /\ locals.sprint_name = SprintCandidateName(issue.raw_sprint[sel])
           /\ locals.best_date = dates[sel]
           /\ (\E j \in DOMAIN dates : dates[j] # DatetimeMin)
                 => locals.best_date # DatetimeMin
           /\ (pc = "done" /\ result # <<>>) =>
                 result[1].Sprint_Name = SprintCandidateName(issue.raw_sprint[sel])

\* C10 witness: two different candidates share the maximum date, the second of
\* them is selected, and a candidate that does not parse comes after both.
C10_Witness ==
    /\ SprintLoopEnded
    /\ Len(issue.raw_sprint) = 3
    /\ issue.raw_sprint[1] # issue.raw_sprint[2]
    /\ CandidateDates[1] = CandidateDates[2]
    /\ CandidateDates[3] = DatetimeMin
    /\ CandidateDates[1] # DatetimeMin
    /\ locals.best_sprint = issue.raw_sprint[2]

\* the goal text that a sprint candidate carries: the attribute of an object,
\* the entry of a dict; a candidate given as one string carries none
CandidateGoalText(s) ==
    IF s.kind \in {"obj", "dict"} /\ s.goal # NoneText THEN s.goal ELSE <<>>

\* C11: process_issue_metrics returns no record exactly when the item has at
\* least one sprint candidate and the goal text of the selected candidate does
\* not contain the team-filter string; an item without sprint candidates
\* yields a record named 'Unknown Sprint'.
C11_NoRecordIffGoalLacksTeam ==
    pc = "done" =>
        /\ result = <<>> <=>
              /\ Len(issue.raw_sprint) > 0
              /\ ~StrContains(FIELD_TEAM_FILTER_VALUE, CandidateGoalText(locals.best_sprint))
        /\ Len(issue.raw_sprint) = 0 =>
              /\ result # <<>>
              /\ result[1].Sprint_Name = STR_Unknown_Sprint

---------------------------------------------------------------------------
(* SpecBD: calculate_business_days applied twice to one start *)

BDTimes == 0 .. (BDDays * TicksPerDay - 1)

ItemIdle ==
    /\ issue = NoIssue
    /\ locals = InitialLocals
    /\ pc = "idle"
    /\ s_idx = 1
    /\ h_idx = 1
    /\ i_idx = 1
    /\ result = <<>>

BDInit ==
    /\ ItemIdle
    /\ RunIdle
    /\ CSIdle
    /\ CurveIdle
    /\ start_datetime \in BDTimes
    /\ end_datetime \in BDTimes
    /\ end_datetime2 \in BDTimes
    /\ duration1 = 0
    /\ duration2 = 0
    /\ bd_pc = "args"

BDCallFirst ==
    /\ bd_pc = "args"
    /\ duration1' = calculate_business_days(start_datetime, end_datetime)
    /\ bd_pc' = "first"
    /\ UNCHANGED <<start_datetime, end_datetime, end_datetime2, duration2>>
    /\ UNCHANGED notBDVars

BDCallSecond ==
    /\ bd_pc = "first"
    /\ duration2' = calculate_business_days(start_datetime, end_datetime2)
    /\ bd_pc' = "done"
    /\ UNCHANGED <<start_datetime, end_datetime, end_datetime2, duration1>>
    /\ UNCHANGED notBDVars

BDNext == BDCallFirst \/ BDCallSecond

SpecBD == BDInit /\ [][BDNext]_vars

---------------------------------------------------------------------------
(* Claims about calculate_business_days *)

\* C2: for a fixed start, calculate_business_days(start, end) is monotonically
\* non-decreasing in end: end1 <= end2 implies duration(start, end1) <=
\* duration(start, end2).
C2_MonotoneInEnd ==
    (bd_pc = "done" /\ end_datetime <= end_datetime2) => duration1 <= duration2

\* C9: calculate_business_days(Friday 00:00, following Monday 00:00) yields 0.
C9_FridayToMondayIsZero ==
    (bd_pc = "done" /\ start_datetime = StartOfDay(4) /\ end_datetime = StartOfDay(7))
        => duration1 = 0

---------------------------------------------------------------------------
(* SpecScores: one call of calculate_scores *)

MaxCopies == 2          \* defects that share the metrics of one pool record

\* a record as process_issue_metrics returns it: the total is the sum of the
\* phases, Reached Delivered follows from the status
MetricRecord(key, type, points, sprint, status, dev, review, acceptance, rejections, created) ==
    [Issue_Key |-> key,
     Issue_Type |-> type,
     Story_Points |-> points,
     Sprint_Name |-> sprint,
     Days_In_Progress |-> dev + review + acceptance,
     Dev_Cycle_Time |-> dev,
     Review_Cycle_Time |-> review,
     Acceptance_Cycle_Time |-> acceptance,
     Rejection_Count |-> rejections,
     Reached_Delivered |-> IF StatusClean(status) \in DELIVERY_STATUSES THEN 1 ELSE 0,
     Status |-> StrTitle(StatusClean(status)),
     Was_Rejected |-> IF rejections > 0 THEN "Yes" ELSE "No",
     Created_Date |-> created,
     Sprint_Start_Date |-> IF _parse_sprint_date(sprint) # DatetimeMin
                           THEN Some(_parse_sprint_date(sprint)) ELSE NoneNum]

(* The sprints: 12.30.24 (day 0), 01.06.25 (day 7), and 01.13.25 (day 14)
   under two names; the last date is the active one.  Three defects are
   created in the week of 01.06.25, one of them assigned to the active
   sprint and one to no sprint; a fourth is created in the course of day 13,
   the seventh day of sprint 01.06.25. *)
RecordPool ==
    << MetricRecord("PROJ-1", "Story", 3, NAME_A, RAW_Accepted, 150, 50, 0, 1, At(1, 1)),
       MetricRecord("PROJ-2", "Bug", 1, NAME_A, RAW_Accepted, 50, 0, 0, 0, At(8, 0)),
       MetricRecord("PROJ-3", "Story", 2, NAME_Old, RAW_Closed_Completed, 75, 25, 0, 0, At(0, 1)),
       MetricRecord("PROJ-4", "Bug", 0, NAME_B, RAW_Started, 25, 0, 0, 0, At(9, 2)),
       MetricRecord("PROJ-5", "Story", 5, NAME_B2, RAW_Accepted, 200, 100, 0, 0, At(14, 0)),
       MetricRecord("PROJ-6", "Bug", 0, STR_Unknown_Sprint, RAW_Delivered, 10, 0, 30, 2, At(10, 1)),
       MetricRecord("PROJ-7", "Task", 1, NAME_Old, RAW_Accepted, 0, 0, 0, 1, At(0, 2)),
       MetricRecord("PROJ-8", "Bug", 1, NAME_A, RAW_Accepted, 20, 0, 0, 0, At(13, 2)) >>

RECURSIVE Repeat(_, _)
Repeat(r, k) == IF k = 0 THEN <<>> ELSE <<r>> \o Repeat(r, k - 1)

\* a defect of the pool occurs up to MaxCopies times, another record at most once
CopyLimit(i) == IF RecordPool[i].Issue_Type = "Bug" THEN MaxCopies ELSE 1

\* the frame with copies[i] rows of pool record i
RECURSIVE FrameOf(_, _)
FrameOf(copies, i) ==
    IF i = 0 THEN <<>> ELSE FrameOf(copies, i - 1) \o Repeat(RecordPool[i], copies[i])

MetricFrames ==
    {FrameOf(copies, Len(RecordPool)) :
        copies \in {c \in [1..Len(RecordPool) -> 0..MaxCopies] :
                       \A i \in 1..Len(RecordPool) : c[i] <= CopyLimit(i)}}

SurveyRow(name, raw) == [sprint_name |-> name, flow_score_raw |-> raw]

\* survey tables, raw scores in tenths: none; one sprint; scores above 100 and
\* below 0 and a score for the active sprint; two rows for one sprint
FlowTables ==
    { <<>>,
      <<SurveyRow(NAME_A, 850)>>,
      <<SurveyRow(NAME_A, 1200), SurveyRow(NAME_B, 400), SurveyRow(NAME_Old, -50)>>,
      <<SurveyRow(NAME_A, 800), SurveyRow(NAME_A, 655), SurveyRow(STR_Unknown_Sprint, 1000)>> }

ScoresInit ==
    /\ BDIdle
    /\ ItemIdle
    /\ RunIdle
    /\ CurveIdle
    /\ metrics_df \in MetricFrames
    /\ flow_df \in FlowTables
    /\ dashboard = <<>>
    /\ cs_pc = "aggregate"
    /\ table = <<>>

\* dashboard_calculator.py:36-130
CS_Aggregate ==
    /\ cs_pc = "aggregate"
    /\ ~AggregationRaises(metrics_df)
    /\ dashboard' = AggregateDashboard(metrics_df)
    /\ cs_pc' = "score"
    /\ UNCHANGED <<metrics_df, flow_df, table>>
    /\ UNCHANGED notCSVars

\* dashboard_calculator.py:37 and :86, KeyError: 'Sprint Name'
CS_Raise ==
    /\ cs_pc = "aggregate"
    /\ AggregationRaises(metrics_df)
    /\ cs_pc' = "raised"
    /\ UNCHANGED <<metrics_df, flow_df, dashboard, table>>
    /\ UNCHANGED notCSVars

\* dashboard_calculator.py:132-204
CS_Score ==
    /\ cs_pc = "score"
    /\ dashboard' = ScoreDashboard(dashboard, flow_df)
    /\ cs_pc' = "output"
    /\ UNCHANGED <<metrics_df, flow_df, table>>
    /\ UNCHANGED notCSVars

\* dashboard_calculator.py:206-238
CS_Return ==
    /\ cs_pc = "output"
    /\ table' = FinalTable(dashboard)
    /\ cs_pc' = "done"
    /\ UNCHANGED <<metrics_df, flow_df, dashboard>>
    /\ UNCHANGED notCSVars

ScoresNext == CS_Aggregate \/ CS_Raise \/ CS_Score \/ CS_Return

SpecScores == ScoresInit /\ [][ScoresNext]_vars

---------------------------------------------------------------------------
(* Claims about calculate_scores *)

ActiveSprintDate == MostRecentSprintDate(WithParsedDates(metrics_df))

RecordsOf(name) == {i \in 1..Len(metrics_df) : metrics_df[i].Sprint_Name = name}

\* C5: the sprint with the most recent parsed start date among all item
\* records never appears as a row of the table returned by calculate_scores.
C5_ActiveSprintNotInTable ==
    cs_pc = "done" =>
        \A i \in 1..Len(table) : table[i].Sprint_Start_Date # ActiveSprintDate

\* the call has returned rows of past sprints, while the active date is shared
\* by two sprints with records, one with a defect and a survey score
C5_Witness ==
    /\ cs_pc = "done"
    /\ Len(table) >= 2
    /\ RecordsOf(NAME_B) # {}
    /\ RecordsOf(NAME_B2) # {}
    /\ \E i \in RecordsOf(NAME_B) : metrics_df[i].Issue_Type = "Bug"
    /\ \E j \in 1..Len(flow_df) : flow_df[j].sprint_name = NAME_B
    /\ \E j \in 1..Len(dashboard) : dashboard[j].Sprint_Name = NAME_B
    /\ \E j \in 1..Len(dashboard) : dashboard[j].Sprint_Name = NAME_B2

ScoreFields(row) ==
    { row.Bug_Score, row.Rejection_Score, row.Throughput_Score, row.Efficiency_Score,
      row.Velocity_Score, row.Quality_Score, row.Flow_Score, row.FINAL_AI_IMPACT_INDEX }

\* C6: in every row returned by calculate_scores every score field lies in
\* [0, 100] (0 .. 1000 tenths).
C6_ScoresWithinBounds ==
    cs_pc = "done" =>
        \A i \in 1..Len(table) : \A score \in ScoreFields(table[i]) :
            0 <= score /\ score <= 10 * EXCELLENCE_SCORE

\* a returned row with more defects than the cap, a rejection ratio above
\* 100 % and a raw survey score above 100, and one with a survey score below 0
C6_Witness ==
    /\ cs_pc = "done"
    /\ \E i \in 1..Len(table) :
          /\ table[i].Bugs_Created > BUG_PENALTY_CAP
          /\ table[i].Bug_Score = 0
          /\ table[i].Flow_Survey_Score.n > EXCELLENCE_SCORE * table[i].Flow_Survey_Score.d
          /\ table[i].Flow_Score = 10 * EXCELLENCE_SCORE
          /\ table[i].Throughput_Score = 10 * EXCELLENCE_SCORE
    /\ \E i \in 1..Len(table) :
          /\ table[i].Rejection_Ratio > 10 * EXCELLENCE_SCORE
          /\ table[i].Rejection_Score = 0
    /\ \E i \in 1..Len(table) :
          /\ table[i].Flow_Survey_Score.n < 0
          /\ table[i].Flow_Score = 0

---------------------------------------------------------------------------
(* SpecCurve: calc_throughput_score and calc_efficiency_score applied to two
   arguments under one median.  The median of the positive values of a
   column is positive, a whole number or a whole number and a half. *)

MaxActual == 6          \* largest ticket count / cycle time passed to a curve
MaxMedianN == 6         \* largest numerator of the median

CurveActuals == -1 .. MaxActual

CurveMedians == [n : 1..MaxMedianN, d : {1, 2}]

CurveInit ==
    /\ BDIdle
    /\ ItemIdle
    /\ RunIdle
    /\ CSIdle
    /\ actual_lo \in CurveActuals
    /\ actual_hi \in CurveActuals
    /\ actual_lo <= actual_hi
    /\ median \in CurveMedians
    /\ score_lo = 0
    /\ score_hi = 0
    /\ curve_pc = "args"

\* dashboard_calculator.py:166
Curve_Throughput ==
    /\ curve_pc = "args"
    /\ score_lo' = RoundTenths(calc_throughput_score(actual_lo, median))
    /\ score_hi' = RoundTenths(calc_throughput_score(actual_hi, median))
    /\ curve_pc' = "throughput"
    /\ UNCHANGED <<actual_lo, actual_hi, median>>
    /\ UNCHANGED notCurveVars

\* dashboard_calculator.py:179
Curve_Efficiency ==
    /\ curve_pc = "args"
    /\ score_lo' = RoundTenths(calc_efficiency_score(actual_lo, median))
    /\ score_hi' = RoundTenths(calc_efficiency_score(actual_hi, median))
    /\ curve_pc' = "efficiency"
    /\ UNCHANGED <<actual_lo, actual_hi, median>>
    /\ UNCHANGED notCurveVars

CurveNext == Curve_Throughput \/ Curve_Efficiency

SpecCurve == CurveInit /\ [][CurveNext]_vars

---------------------------------------------------------------------------
(* Claims about the scoring curves *)

\* C7 as stated: under a fixed median the throughput score is non-decreasing
\* in the ticket count and the efficiency score is non-increasing in the
\* cycle time, over all inputs including the zero boundary.
C7_MonotoneEverywhere ==
    /\ curve_pc = "throughput" => score_lo <= score_hi
    /\ curve_pc = "efficiency" => score_lo >= score_hi

\* C7 amended: under a fixed median the throughput score is non-decreasing in
\* the ticket count over all inputs; the efficiency score is non-increasing in
\* the cycle time over the positive cycle times, and is 0 for a cycle time
\* that is zero or negative.
C7_MonotoneAwayFromZero ==
    /\ curve_pc = "throughput" => score_lo <= score_hi
    /\ (curve_pc = "efficiency" /\ actual_lo > 0) => score_lo >= score_hi
    /\ (curve_pc = "efficiency" /\ actual_lo <= 0) => score_lo = 0
    /\ (curve_pc = "efficiency" /\ actual_hi <= 0) => score_hi = 0

\* a cycle time below the median scores strictly more than one above it,
\* and neither score is at a bound
C7_Witness ==
    /\ curve_pc = "efficiency"
    /\ 0 < actual_lo
    /\ actual_lo * median.d < median.n
    /\ median.n < actual_hi * median.d
    /\ score_lo < 10 * EXCELLENCE_SCORE
    /\ score_lo > score_hi
    /\ score_hi > 0

---------------------------------------------------------------------------
(* SpecRunLoop: step 2 of TeamImpactDashboard.run, main.py:35-43, from the
   list of issues to the list raw_metrics.  Each issue is handed to
   process_issue_metrics, whose steps are the actions PIM_ above; the wall
   clock advances on its own.  (Line 28 of run passes team_filter to
   load_flow_data, which takes no argument.) *)

MaxIssues == 2          \* length of jira_issues
MaxTicks == 2           \* ticks of the wall clock during the loop

ClockStart == At(7, 1)

OpenIssue(key, status, items) ==
    [key |-> key, story_points |-> Some(2), created |-> At(0, 1), status |-> status,
     issuetype |-> "Story", raw_sprint |-> <<ObjSprint(NAME_A, GOAL_Foundation)>>,
     histories |-> <<[created |-> At(0, 2), items |-> items]>>]

\* two items still in progress, one completed, one of another team, one with
\* a malformed creation timestamp, one with a malformed history timestamp
RunIssuePool ==
    { OpenIssue("PROJ-1", RAW_Started, <<StatusChange(RAW_To_Do, RAW_Started)>>),
      OpenIssue("PROJ-2", RAW_Peer_Review, <<StatusChange(RAW_To_Do, RAW_Started),
                                             StatusChange(RAW_Started, RAW_Peer_Review)>>),
      OpenIssue("PROJ-3", RAW_Accepted, <<StatusChange(RAW_To_Do, RAW_Started),
                                          StatusChange(RAW_Started, RAW_Accepted)>>),
      [OpenIssue("PROJ-4", RAW_Started, <<StatusChange(RAW_To_Do, RAW_Started)>>)
          EXCEPT !.raw_sprint = <<ObjSprint(NAME_A, GOAL_Platform)>>],
      [OpenIssue("PROJ-5", RAW_Started, <<StatusChange(RAW_To_Do, RAW_Started)>>)
          EXCEPT !.created = Unparsable],
      [OpenIssue("PROJ-6", RAW_Started, <<StatusChange(RAW_To_Do, RAW_Started)>>)
          EXCEPT !.histories = <<[created |-> At(0, 2),
                                  items |-> <<StatusChange(RAW_To_Do, RAW_Started)>>],
                                 [created |-> Unparsable,
                                  items |-> <<StatusChange(RAW_Started, RAW_Accepted)>>]>>] }

RunIssueLists == UNION {[1..n -> RunIssuePool] : n \in 0..MaxIssues}

RunLoopInit ==
    /\ BDIdle
    /\ ItemIdle
    /\ CSIdle
    /\ CurveIdle
    /\ jira_issues \in RunIssueLists
    /\ run_idx = 1
    /\ raw_metrics = <<>>
    /\ run_pc = "fetched"
    /\ clock = ClockStart
    /\ now_reads = <<>>

\* main.py:31-36
Run_CheckIssues ==
    /\ run_pc = "fetched"
    /\ run_pc' = IF Len(jira_issues) = 0 THEN "returned" ELSE "loop"
    /\ UNCHANGED <<jira_issues, run_idx, raw_metrics, clock, now_reads>>
    /\ UNCHANGED itemVars
    /\ UNCHANGED notRunVars

\* main.py:37-39, the call of process_issue_metrics
Run_Call ==
    /\ run_pc = "loop"
    /\ run_idx <= Len(jira_issues)
    /\ issue' = jira_issues[run_idx]
    /\ locals' = InitialLocals
    /\ pc' = "begin"
    /\ s_idx' = 1
    /\ h_idx' = 1
    /\ i_idx' = 1
    /\ result' = <<>>
    /\ run_pc' = "call"
    /\ UNCHANGED <<jira_issues, run_idx, raw_metrics, clock, now_reads>>
    /\ UNCHANGED notRunVars

\* metrics_processor.py:192-204 within the loop: now is the wall clock
Run_OpenItem ==
    /\ run_pc = "call"
    /\ PIM_OpenItem(clock)

\* main.py:40-41, the call has returned a record or None
Run_Collect ==
    /\ run_pc = "call"
    /\ pc = "done"
    /\ raw_metrics' = raw_metrics \o result
    /\ now_reads' = now_reads \o locals.now
    /\ run_idx' = run_idx + 1
    /\ pc' = "idle"
    /\ run_pc' = "loop"
    /\ UNCHANGED <<jira_issues, clock>>
    /\ UNCHANGED <<issue, locals, s_idx, h_idx, i_idx, result>>
    /\ UNCHANGED notRunVars

\* the except branch dropping what the loop has collected
Run_Except_DropCollected ==
    /\ run_pc = "call"
    /\ pc = "raised"
    /\ raw_metrics' = <<>>
    /\ run_idx' = run_idx + 1
    /\ pc' = "idle"
    /\ run_pc' = "loop"
    /\ UNCHANGED <<jira_issues, clock, now_reads>>
    /\ UNCHANGED <<issue, locals, s_idx, h_idx, i_idx, result>>
    /\ UNCHANGED notRunVars

\* main.py:42-43, the call has raised: a warning is logged, nothing is appended
Run_Except ==
    /\ run_pc = "call"
    /\ pc = "raised"
    /\ run_idx' = run_idx + 1
    /\ pc' = "idle"
    /\ run_pc' = "loop"
    /\ UNCHANGED <<jira_issues, raw_metrics, clock, now_reads>>
    /\ UNCHANGED <<issue, locals, s_idx, h_idx, i_idx, result>>
    /\ UNCHANGED notRunVars

\* main.py:45, the loop has ended
Run_LoopEnd ==
    /\ run_pc = "loop"
    /\ run_idx > Len(jira_issues)
    /\ run_pc' = "processed"
    /\ UNCHANGED <<jira_issues, run_idx, raw_metrics, clock, now_reads>>
    /\ UNCHANGED itemVars
    /\ UNCHANGED notRunVars

\* the wall clock advances while the loop runs
Tick ==
    /\ run_pc \in {"loop", "call"}
    /\ clock < ClockStart + MaxTicks
    /\ clock' = clock + 1
    /\ UNCHANGED <<jira_issues, run_idx, raw_metrics, run_pc, now_reads>>
    /\ UNCHANGED itemVars
    /\ UNCHANGED notRunVars

RunLoopNext ==
    \/ Run_CheckIssues
    \/ Run_Call
    \/ PIM_Begin
    \/ PIM_SprintCandidate
    \/ PIM_TeamFilter
    \/ PIM_InitAccumulators
    \/ PIM_StatusItem
    \/ PIM_NextHistory
    \/ Run_OpenItem
    \/ PIM_Return
    \/ PIM_Raise
    \/ Run_Collect
    \/ Run_Except
    \/ Run_LoopEnd
    \/ Tick

SpecRunLoop == RunLoopInit /\ [][RunLoopNext]_vars

---------------------------------------------------------------------------
(* Claims about the loop of run *)

\* C8: within a single run every open item is extended to the same processing
\* instant: no two items of one run are measured against different values of
\* now.
C8_OneNowPerRun ==
    \A i, j \in 1..Len(now_reads) : now_reads[i] = now_reads[j]

---------------------------------------------------------------------------
(* Further claims about calculate_scores *)

\* the Bug records of the argument metrics_df created from start to
\* start + days * 24 h, both ends included
BugsInWindow(start, days) ==
    {i \in 1..Len(metrics_df) :
        /\ metrics_df[i].Issue_Type = "Bug"
        /\ start <= metrics_df[i].Created_Date
        /\ metrics_df[i].Created_Date <= start + days * TicksPerDay}

\* the rows the call holds once the aggregates are merged
RowsSoFar == IF cs_pc = "done" THEN table ELSE dashboard

\* C12: for every sprint with a resolvable start date, Bugs Created equals the
\* number of Bug records of the full record set whose creation timestamp t
\* satisfies start <= t <= start + D days, whatever sprint they are assigned to.
C12_BugsCountedByCreationDate ==
    cs_pc \in {"score", "output", "done"} =>
        \A i \in 1..Len(RowsSoFar) :
            LET start == _parse_sprint_date(RowsSoFar[i].Sprint_Name)
            IN start # DatetimeMin =>
                  RowsSoFar[i].Bugs_Created
                      = Cardinality(BugsInWindow(start, SPRINT_DURATION_DAYS))

\* a returned row of sprint 01.06.25 counts a defect assigned to the active
\* sprint and one assigned to no sprint
C12_Witness ==
    /\ cs_pc = "done"
    /\ \E i \in 1..Len(table) :
          /\ table[i].Sprint_Name = NAME_A
          /\ table[i].Bugs_Created >= 2
          /\ \E j \in BugsInWindow(_parse_sprint_date(NAME_A), SPRINT_DURATION_DAYS) :
                metrics_df[j].Sprint_Name = NAME_B
          /\ \E j \in BugsInWindow(_parse_sprint_date(NAME_A), SPRINT_DURATION_DAYS) :
                metrics_df[j].Sprint_Name = STR_Unknown_Sprint
          /\ \A j \in BugsInWindow(_parse_sprint_date(NAME_A), SPRINT_DURATION_DAYS) :
                metrics_df[j].Sprint_Name # NAME_A

\* the Bug records of metrics_df created on one of the calendar days
\* first_day .. first_day + days
BugsOnDays(first_day, days) ==
    {i \in 1..Len(metrics_df) :
        /\ metrics_df[i].Issue_Type = "Bug"
        /\ first_day <= DateOf(metrics_df[i].Created_Date)
        /\ DateOf(metrics_df[i].Created_Date) <= first_day + days}

\* C13: with SPRINT_DURATION_DAYS = 6 a Bug created at any time of day on any
\* of the days start, start + 1, ..., start + 6 is counted in that sprint's
\* Bugs Created.
C13_SevenCalendarDays ==
    cs_pc \in {"score", "output", "done"} =>
        \A i \in 1..Len(RowsSoFar) :
            LET start == _parse_sprint_date(RowsSoFar[i].Sprint_Name)
            IN start # DatetimeMin =>
                  RowsSoFar[i].Bugs_Created
                      >= Cardinality(BugsOnDays(DateOf(start), SPRINT_DURATION_DAYS))

\* velocity * 0.60 + quality * 0.25 + flow * 0.15 of a row, in thousandths
WeightedSum(row) ==
    row.Velocity_Score * 60 + row.Quality_Score * 25 + row.Flow_Score * 15

\* C14: for every emitted sprint FINAL AI IMPACT INDEX equals
\* round(velocity * 0.60 + quality * 0.25 + flow * 0.15, 1) of that row's
\* scores (the nearest tenth, the even one at a tie); velocity 80.0, quality
\* 90.0 and flow 70.0 give 81.0.
C14_FinalIndexIsWeightedSum ==
    /\ FinalIndex(800, 700, 900) = 810
    /\ cs_pc = "done" =>
          \A i \in 1..Len(table) :
              LET index == table[i].FINAL_AI_IMPACT_INDEX
                  sum == WeightedSum(table[i])
              IN /\ 100 * index - sum <= 50
                 /\ sum - 100 * index <= 50
                 /\ (100 * index - sum \in {50, -50}) => index % 2 = 0

\* a returned row whose three scores differ and whose weighted sum is not a
\* multiple of a tenth
C14_Witness ==
    /\ cs_pc = "done"
    /\ \E i \in 1..Len(table) :
          /\ table[i].Velocity_Score # table[i].Quality_Score
          /\ table[i].Quality_Score # table[i].Flow_Score
          /\ table[i].Velocity_Score # table[i].Flow_Score
          /\ 0 < table[i].Velocity_Score
          /\ WeightedSum(table[i]) % 100 # 0
          /\ 100 * table[i].FINAL_AI_IMPACT_INDEX # WeightedSum(table[i])

\* the survey rows of one sprint
SurveyRowsOf(name) == {j \in 1..Len(flow_df) : flow_df[j].sprint_name = name}

\* the survey rows of the sprints of the dashboard
SurveyRowsInDashboard ==
    {j \in 1..Len(flow_df) :
        \E i \in 1..Len(dashboard) : dashboard[i].Sprint_Name = flow_df[j].sprint_name}

\* the sum of the raw scores (tenths) of a set of survey rows
RECURSIVE RawScoreSum(_)
RawScoreSum(rows) ==
    IF rows = {} THEN 0
    ELSE LET j == CHOOSE k \in rows : TRUE
         IN flow_df[j].flow_score_raw + RawScoreSum(rows \ {j})

\* x = the mean of the raw scores of the survey rows `rows`, or the default
\* when there are none; x is a fraction of whole points
IsMeanOrDefault(x, rows) ==
    IF rows = {} THEN x.n = FLOW_DEFAULT_SCORE * x.d
    ELSE x.n * 10 * Cardinality(rows) = RawScoreSum(rows) * x.d

---------------------------------------------------------------------------
(* Further claims about the loop of run *)

\* the locals after the sprint candidates cands have been looked at
RECURSIVE AfterCandidates(_, _)
AfterCandidates(loc, cands) ==
    IF Len(cands) = 0 THEN loc
    ELSE SprintLoopStep(AfterCandidates(loc, SubSeq(cands, 1, Len(cands) - 1)),
                        cands[Len(cands)])

\* the locals after the items of one history have been replayed
RECURSIVE AfterItems(_, _, _)
AfterItems(loc, items, change_time) ==
    IF Len(items) = 0 THEN loc
    ELSE StatusItemStep(AfterItems(loc, SubSeq(items, 1, Len(items) - 1), change_time),
                        items[Len(items)], change_time)

\* the locals after the histories hs have been replayed
RECURSIVE AfterHistories(_, _)
AfterHistories(loc, hs) ==
    IF Len(hs) = 0 THEN loc
    ELSE LET h == hs[Len(hs)]
         IN AfterItems(AfterHistories(loc, SubSeq(hs, 1, Len(hs) - 1)), h.items, h.created)

\* the item belongs to another team
IsFiltered(iss) ==
    /\ Len(iss.raw_sprint) > 0
    /\ ~StrContains(FIELD_TEAM_FILTER_VALUE,
                    SprintGoal(AfterCandidates(InitialLocals, iss.raw_sprint).best_sprint))

\* the item has a timestamp that cannot be parsed
IsMalformed(iss) ==
    \/ iss.created = Unparsable
    \/ \E k \in 1..Len(iss.histories) : iss.histories[k].created = Unparsable

\* the record of a well-formed item of the team, processed on its own at `now`
RecordAlone(iss, now) ==
    LET selected == AfterCandidates(InitialLocals, iss.raw_sprint)
        started == [selected EXCEPT !.histories = SortedByCreated(iss.histories),
                                    !.current_status = STR_To_Do,
                                    !.last_change_time = iss.created]
    IN AssembleRecord(iss, OpenItemStep(AfterHistories(started, started.histories), now))

\* the items of the batch that are of the team and well-formed, in order
ItemsWithRecord == SelectSeq(jira_issues, LAMBDA iss : ~IsFiltered(iss) /\ ~IsMalformed(iss))

\* C16: an item whose processing fails is skipped and contributes no record,
\* every other item of the batch yields exactly the record it yields when
\* processed on its own, and the loop runs to its end.
C16_BadItemIsSkipped ==
    /\ run_pc = "processed" =>
          /\ Len(raw_metrics) = Len(ItemsWithRecord)
          /\ \A k \in 1..Len(raw_metrics) :
                \E now \in ClockStart .. (ClockStart + MaxTicks) :
                    raw_metrics[k] = RecordAlone(ItemsWithRecord[k], now)
    /\ run_pc \in {"loop", "call"} => Len(raw_metrics) <= Len(ItemsWithRecord)
    /\ (run_pc = "loop" /\ run_idx > 1) =>
          \A k \in 1..Len(raw_metrics) : raw_metrics[k].Issue_Key = ItemsWithRecord[k].key

\* the loop has ended with the record of a good item that follows, and of one
\* that precedes, an item whose processing failed
C16_Witness ==
    /\ run_pc = "processed"
    /\ Len(jira_issues) = 2
    /\ Len(raw_metrics) = 1
    /\ \E k \in 1..2 : IsMalformed(jira_issues[k]) /\ ~IsFiltered(jira_issues[k])
    /\ raw_metrics[1].Days_In_Progress > 0

---------------------------------------------------------------------------
(* Sprints without completed tickets *)

\* the sprint names of the item records and of the survey
KnownSprints ==
    {metrics_df[i].Sprint_Name : i \in 1..Len(metrics_df)}
        \cup {flow_df[j].sprint_name : j \in 1..Len(flow_df)}

\* a sprint that starts before the most recent start date of the records
NonActive(name) == _parse_sprint_date(name) < ActiveSprintDate

CompletedTicketsOf(name) == {i \in RecordsOf(name) : DoneMask(metrics_df[i])}

\* the sprint has a row in the frame of defect counts
HasDefectCount(name) == name \in Range(SprintsWithDates(metrics_df))

HasSurveyScore(name) == SurveyRowsOf(name) # {}

ZeroedRow(row) ==
    /\ row.Completed_Tickets = 0
    /\ row.Total_Story_Points = 0
    /\ row.Avg_Cycle_Time_per_Ticket = 0
    /\ row.Avg_Dev_Cycle_Time_per_Ticket = 0
    /\ row.Avg_Review_Cycle_Time_per_Ticket = 0
    /\ row.Avg_Acceptance_Cycle_Time_per_Ticket = 0

\* C17: a non-active sprint without completed tickets that has a defect count
\* or a survey flow score has a row in the table returned by calculate_scores,
\* and every row of it has Completed Tickets, story points and the per-ticket
\* averages equal to 0.
C17_ZeroTicketSprintHasRow ==
    cs_pc = "done" =>
        \A name \in KnownSprints :
            (/\ NonActive(name)
             /\ CompletedTicketsOf(name) = {}
             /\ HasDefectCount(name) \/ HasSurveyScore(name))
            => /\ \E i \in 1..Len(table) : table[i].Sprint_Name = name
               /\ \A i \in 1..Len(table) :
                     table[i].Sprint_Name = name => ZeroedRow(table[i])

---------------------------------------------------------------------------
(* Spans of calculate_business_days over several dates *)

\* the Monday-Friday dates strictly between two dates
WeekdaysStrictlyBetween(first_date, last_date) ==
    Cardinality({d \in (first_date + 1) .. (last_date - 1) : Weekday(d) < 5})

\* weekday time between two instants on different dates, in ticks: the rest of
\* the start day, the elapsed part of the end day, the whole weekdays between
WeekdayTicks(start, end) ==
    (IF Weekday(DateOf(start)) < 5 THEN StartOfDay(DateOf(start) + 1) - start ELSE 0)
    + (IF Weekday(DateOf(end)) < 5 THEN end - StartOfDay(DateOf(end)) ELSE 0)
    + TicksPerDay * WeekdaysStrictlyBetween(DateOf(start), DateOf(end))

\* C18: for start < end on different calendar dates calculate_business_days
\* returns the remaining fraction of the start day (if a weekday) plus the
\* elapsed fraction of the end day (if a weekday) plus the number of whole
\* weekdays strictly between the two dates; Monday 12:00 to Wednesday 12:00
\* is 2 days and Monday 12:00 to the next Monday 12:00 is 5.
C18_MultiDaySpanCountsWeekdayTime ==
    (/\ bd_pc # "args"
     /\ start_datetime < end_datetime
     /\ DateOf(start_datetime) # DateOf(end_datetime))
    => duration1 = WeekdayTicks(start_datetime, end_datetime)

---------------------------------------------------------------------------
(* The attribution of durations to phases (SpecItem) *)

\* the positions <<history, item>> of the status events in the order of the
\* replay (locals.histories: the input sorted by timestamp)
StatusEvents ==
    UNION {{<<h, i>> : i \in {k \in 1..Len(locals.histories[h].items) :
                                 locals.histories[h].items[k].field = "status"}} :
           h \in 1..Len(locals.histories)}

Precedes(e, h, i) == e[1] < h \/ (e[1] = h /\ e[2] < i)

\* the last status event before position <<h, i>>, <<0, 0>> when there is none
PreviousEvent(h, i) ==
    LET earlier == {e \in StatusEvents : Precedes(e, h, i)}
    IN IF earlier = {} THEN <<0, 0>>
       ELSE CHOOSE e \in earlier : \A f \in earlier : f = e \/ Precedes(f, e[1], e[2])

\* the status the item is in before position <<h, i>>: the target of the
\* previous status event, "To Do" when there is none
StatusBefore(h, i) ==
    LET e == PreviousEvent(h, i)
    IN IF e = <<0, 0>> THEN STR_To_Do
       ELSE NormalizeStatus(locals.histories[e[1]].items[e[2]].toString)

\* the time of the previous status change: the item's creation when there is none
ChangeTimeBefore(h, i) ==
    LET e == PreviousEvent(h, i)
    IN IF e = <<0, 0>> THEN issue.created ELSE locals.histories[e[1]].created

\* the accumulators grow by total, dev, review and acceptance
Grows(total, dev, review, acceptance) ==
    /\ locals'.time_in_progress_days = locals.time_in_progress_days + total
    /\ locals'.dev_time_days = locals.dev_time_days + dev
    /\ locals'.review_time_days = locals.review_time_days + review
    /\ locals'.acceptance_time_days = locals.acceptance_time_days + acceptance

\* the accumulators grow by the duration as the status prescribes: the total
\* and one bucket for a tracked status, nothing otherwise
AttributedTo(status, duration) ==
    Grows(IF status \in {STR_started, STR_peer_review, STR_finished, STR_delivered}
          THEN duration ELSE 0,
          IF status = STR_started THEN duration ELSE 0,
          IF status \in {STR_peer_review, STR_finished} THEN duration ELSE 0,
          IF status = STR_delivered THEN duration ELSE 0)

\* the step of process_issue_metrics over a status event
StatusEventStep ==
    /\ pc = "history"
    /\ pc' = "history"
    /\ i_idx' = i_idx + 1
    /\ <<h_idx, i_idx>> \in StatusEvents

\* C19: on each status event the business-day duration since the previous
\* status change is attributed by the status the item was in before the event
\* (the previous event's target, initially "To Do"), not by the event's
\* fromStatus: a tracked status adds it to the total and to its one bucket, any
\* other status leaves the four accumulators unchanged; current status and
\* last change time then are the event's target and timestamp.
C19_AttributionByPriorStatus ==
    [][StatusEventStep =>
          /\ AttributedTo(StatusBefore(h_idx, i_idx),
                          calculate_business_days(ChangeTimeBefore(h_idx, i_idx),
                                                  locals.histories[h_idx].created))
          /\ locals'.current_status =
                 NormalizeStatus(locals.histories[h_idx].items[i_idx].toString)
          /\ locals'.last_change_time = locals.histories[h_idx].created]_vars

\* C19 witness: the second history's status event has been replayed; its
\* fromString names a status other than the tracked one the item was in, and
\* the duration went into the bucket of the latter.
C19_Witness ==
    /\ pc = "history"
    /\ h_idx = 2
    /\ i_idx = 2
    /\ <<2, 1>> \in StatusEvents
    /\ StatusBefore(2, 1) = STR_started
    /\ NormalizeStatus(locals.histories[2].items[1].fromString) = STR_finished
    /\ locals.dev_time_days # 0
    /\ locals.review_time_days = 0
    /\ locals.time_in_progress_days = locals.dev_time_days

---------------------------------------------------------------------------
(* The time of an open item up to the processing instant (SpecItem) *)

\* the position after the last event of the replayed history
EndOfHistory == <<Len(locals.histories) + 1, 1>>

FinalStatus == StatusBefore(EndOfHistory[1], EndOfHistory[2])

LastChangeTime == ChangeTimeBefore(EndOfHistory[1], EndOfHistory[2])

\* the step of process_issue_metrics that follows the last event
AfterLastEventStep ==
    /\ pc = "history"
    /\ pc' = "assemble"

\* C20: after the last event of a history, if and only if the final status is
\* tracked-active, the duration from the last change time to the processing
\* instant is added to the total and to the bucket of that status; an item
\* whose final status is not tracked gets no time added after its last event.
C20_OpenItemCarriedToNow ==
    [][AfterLastEventStep =>
          IF FinalStatus \in {STR_started, STR_peer_review, STR_finished, STR_delivered}
          THEN \E now \in ItemNowTimes :
                  /\ locals'.now = Some(now)
                  /\ AttributedTo(FinalStatus, calculate_business_days(LastChangeTime, now))
          ELSE Grows(0, 0, 0, 0)]_vars

\* C20 witness: the only event of the history put the item into "started",
\* from a status that is not tracked, and the step after it has added the
\* time up to now to the total and to the dev bucket.
C20_Witness ==
    /\ pc = "assemble"
    /\ Len(locals.histories) = 1
    /\ StatusEvents = {<<1, 1>>}
    /\ FinalStatus = STR_started
    /\ locals.now # NoneNum
    /\ locals.dev_time_days > 0
    /\ locals.time_in_progress_days = locals.dev_time_days
    /\ locals.review_time_days = 0
    /\ locals.acceptance_time_days = 0

---------------------------------------------------------------------------
(* The active sprint's survey score and the returned table *)

\* dashboard_calculator.py:26-238: the table calculate_scores returns for
\* item records and a survey for which the aggregation does not raise
calculate_scores(metrics, flow) ==
    FinalTable(ScoreDashboard(AggregateDashboard(metrics), flow))

\* raw survey scores, in tenths, put in place of the active sprint's
AlternativeScores == {0, 900}

\* the survey with the raw score of every row of an active sprint replaced
WithActiveScore(flow, raw) ==
    [j \in 1..Len(flow) |->
        IF _parse_sprint_date(flow[j].sprint_name) = ActiveSprintDate
        THEN [flow[j] EXCEPT !.flow_score_raw = raw]
        ELSE flow[j]]

\* C21: the returned table does not depend on the active sprint's survey
\* score: a second call of calculate_scores on the same item records with a
\* survey that differs only in the raw flow score of the active sprint returns
\* the same table, imputed flow values included.
C21_TableIndependentOfActiveSurvey ==
    cs_pc = "done" =>
        \A raw \in AlternativeScores :
            calculate_scores(metrics_df, WithActiveScore(flow_df, raw)) = table

---------------------------------------------------------------------------
(* The range of Rejection Ratio % *)

\* the item records of a sprint that are no Task
NonTaskRecordsOf(name) == {i \in RecordsOf(name) : NonTaskMask(metrics_df[i])}

RECURSIVE ColumnSum(_, _)
ColumnSum(rows, column) ==
    IF rows = {} THEN 0
    ELSE LET i == CHOOSE k \in rows : TRUE
         IN metrics_df[i][column] + ColumnSum(rows \ {i}, column)

\* C22: for every row of the returned table Rejection Ratio % lies in
\* [0, 100] (0 .. 1000 tenths), the summed rejection count of the sprint's
\* items that are no Task being at most their summed Reached Delivered.
C22_RejectionRatioWithinBounds ==
    cs_pc = "done" =>
        \A i \in 1..Len(table) :
            /\ 0 <= table[i].Rejection_Ratio
            /\ table[i].Rejection_Ratio <= 10 * 100
            /\ ColumnSum(NonTaskRecordsOf(table[i].Sprint_Name), "Rejection_Count")
                  <= ColumnSum(NonTaskRecordsOf(table[i].Sprint_Name), "Reached_Delivered")

---------------------------------------------------------------------------
(* The two exclusions of the active sprint *)

\* the sprint names of the rows of a frame
NamesIn(rows) == {rows[i].Sprint_Name : i \in 1..Len(rows)}

\* C23: the exclusion after scoring removes exactly the sprints the exclusion
\* before the aggregation removed and never another sprint: the sprint names
\* of the returned table are the sprint names of the merged dashboard whose
\* parsed start date is strictly earlier than the maximum start date over all
\* item records.
C23_SecondExclusionMatchesFirst ==
    cs_pc = "done" =>
        NamesIn(table) =
            {name \in NamesIn(dashboard) : _parse_sprint_date(name) < ActiveSprintDate}

\* C23 witness: the scored dashboard holds two sprints of the most recent
\* start date; the returned table has neither, and has a dated sprint and the
\* sprint without a date.
C23_Witness ==
    /\ cs_pc = "done"
    /\ {NAME_B, NAME_B2} \subseteq NamesIn(dashboard)
    /\ {NAME_A, STR_Unknown_Sprint} \subseteq NamesIn(table)
    /\ NamesIn(table) \cap {NAME_B, NAME_B2} = {}
    /\ RecordsOf(NAME_B) # {}
    /\ RecordsOf(NAME_B2) # {}

===========================================================================
